---- MODULE Spec2Model ----
(***************************************************************************)
(* RevenueGuard (src/revenueguard-server.js): the statistical engines      *)
(* computeDriftDetection, findSpikeStart, computeRecencyFactor,            *)
(* computeConfidence and computeRiskScore, and the POST /api/agent/analyze *)
(* handler with the module-level state it reads and writes.                *)
(*                                                                         *)
(* Numbers.  JavaScript numbers are modelled as exact rationals <<n, d>>   *)
(* (d > 0, lowest terms).  x.toFixed(k) followed by parseFloat is modelled *)
(* by what it does: the value is rounded to k decimals, half away from     *)
(* zero, and is held as the integer x * 10^k (Fixed).  The binary rounding *)
(* error of IEEE doubles is not modelled.                                  *)
(*                                                                         *)
(* Record collections.  Every read of the invoice array in the source is   *)
(* a filter, a count or a sum, none of which depends on the order of the   *)
(* array, so the array is modelled as a bag: a function from invoice       *)
(* records to the number of times each occurs.  The event array is read in *)
(* order (filter, map, stable sort) and is a sequence.                     *)
(*                                                                         *)
(* Timestamps.  An ISO-8601 string "2026-02-DDTHH:..Z" is the record       *)
(* [day |-> DD, hour |-> HH]; ts.slice(0, 10) is its day, and the string   *)
(* comparisons of the source are the lexicographic order on (day, hour).   *)
(***************************************************************************)
EXTENDS Integers, Sequences, FiniteSets, TLC

VARIABLES
    invoices,            \* invoices.json / the invoices argument: a bag of invoice records
    events,              \* system_events.json / the events argument: a sequence of event records
    transactions,        \* transactions.json: a sequence of transaction records
    churn,               \* churn_events.json: a sequence of churn records
    ES_REQUIRED,         \* process.env.ES_REQUIRED === 'true'
    cachedInvoices,      \* module-level caches: None or Some(collection)
    cachedEvents,
    cachedTransactions,
    cachedChurn,
    cachedAgentLogs,     \* module-level array of agent log entries
    queryAuditLog,       \* module-level array of audit entries
    lastReasoningTrace,  \* module-level holder: None or Some(reasoning_trace)
    clock,               \* the system clock, in ticks
    call                 \* the last call made and what it returned

vars == <<invoices, events, transactions, churn, ES_REQUIRED, cachedInvoices,
          cachedEvents, cachedTransactions, cachedChurn, cachedAgentLogs,
          queryAuditLog, lastReasoningTrace, clock, call>>

serverVars == <<ES_REQUIRED, cachedInvoices, cachedEvents, cachedTransactions,
                cachedChurn, cachedAgentLogs, queryAuditLog, lastReasoningTrace,
                clock>>

dataVars == <<invoices, events, transactions, churn>>

----------------------------------------------------------------------------
(* Bounds of the model *)

\* distinct invoice records in a generated invoice bag
MaxKinds == 3
\* copies of one invoice record in a generated invoice bag
MaxCount == 2
\* days observed before the default baseline boundary
DaysBefore == 1
\* days observed from the default baseline boundary on
DaysAfter == 2
\* largest drift threshold passed by a caller
MaxThreshold == 3

----------------------------------------------------------------------------
(* Values *)

None == [some |-> FALSE]
Some(x) == [some |-> TRUE, val |-> x]

\* a falsy service argument (null, undefined or '')
NoService == "null"

Services == {"billing-service", "tax-service"}

Stamp(d, h) == [day |-> d, hour |-> h]

\* a.timestamp < b.timestamp on ISO-8601 strings
StampLess(a, b) == a.day < b.day \/ (a.day = b.day /\ a.hour < b.hour)

----------------------------------------------------------------------------
(* Exact arithmetic *)

Abs(x) == IF x < 0 THEN -x ELSE x

RECURSIVE GCD(_, _)
GCD(a, b) == IF b = 0 THEN a ELSE GCD(b, a % b)

\* the rational n/d (d # 0) in lowest terms with a positive denominator
Rat(n, d) ==
    LET g == GCD(Abs(n), Abs(d))
        s == IF d < 0 THEN -1 ELSE 1
    IN <<(s * n) \div g, (s * d) \div g>>

RInt(n) == <<n, 1>>
RAdd(a, b) == Rat(a[1] * b[2] + b[1] * a[2], a[2] * b[2])
RSub(a, b) == Rat(a[1] * b[2] - b[1] * a[2], a[2] * b[2])
RMul(a, b) == Rat(a[1] * b[1], a[2] * b[2])
\* a / b for b # 0
RDiv(a, b) == Rat(a[1] * b[2], a[2] * b[1])
RLess(a, b) == a[1] * b[2] < b[1] * a[2]
RLeq(a, b) == a[1] * b[2] <= b[1] * a[2]
RMin(a, b) == IF RLess(b, a) THEN b ELSE a
RMax(a, b) == IF RLess(a, b) THEN b ELSE a

\* long division: <<floor(rem * scale / d), (rem * scale) % d>> for
\* 0 <= rem < d and scale a power of ten
RECURSIVE ScaledQuotient(_, _, _)
ScaledQuotient(rem, d, scale) ==
    IF scale = 1 THEN <<0, rem>>
    ELSE LET hi == ScaledQuotient(rem, d, scale \div 10)
         IN <<hi[1] * 10 + (hi[2] * 10) \div d, (hi[2] * 10) % d>>

\* parseFloat(x.toFixed(k)) as the integer x * 10^k, scale = 10^k:
\* the nearest integer to r * scale, a tie going away from zero
Fixed(r, scale) ==
    LET a == Abs(r[1])
        qr == ScaledQuotient(a % r[2], r[2], scale)
        m == (a \div r[2]) * scale + qr[1] + (IF 2 * qr[2] >= r[2] THEN 1 ELSE 0)
    IN IF r[1] < 0 THEN -m ELSE m

RECURSIVE SumOver(_, _)
SumOver(S, f) ==
    IF S = {} THEN 0
    ELSE LET x == CHOOSE x \in S : TRUE IN f[x] + SumOver(S \ {x}, f)

RECURSIVE RSumOver(_, _)
RSumOver(S, f) ==
    IF S = {} THEN RInt(0)
    ELSE LET x == CHOOSE x \in S : TRUE IN RAdd(f[x], RSumOver(S \ {x}, f))

\* the largest r in lo..hi with r * r <= n (lo * lo <= n)
RECURSIVE ISqrtIn(_, _, _)
ISqrtIn(n, lo, hi) ==
    IF lo >= hi THEN lo
    ELSE LET mid == (lo + hi + 1) \div 2
         IN IF mid * mid <= n THEN ISqrtIn(n, mid, hi) ELSE ISqrtIn(n, lo, mid - 1)

\* floor(Math.sqrt(n)) for an integer n >= 0
ISqrt(n) == ISqrtIn(n, 0, IF n < 46340 THEN n ELSE 46340)

IsSquare(n) == ISqrt(n) * ISqrt(n) = n

\* the ascending sequence of the integers of S (Array.prototype.sort on
\* 'YYYY-MM-DD' keys)
RECURSIVE SortedSeq(_)
SortedSeq(S) ==
    IF S = {} THEN <<>>
    ELSE LET m == CHOOSE x \in S : \A y \in S : x <= y
         IN <<m>> \o SortedSeq(S \ {m})

----------------------------------------------------------------------------
(* Bags of invoice records *)

\* the sub-bag of the records satisfying P (Array.prototype.filter)
FilterBag(bag, P(_)) == [k \in {x \in DOMAIN bag : P(x)} |-> bag[k]]

\* the number of records of the bag (Array.prototype.length)
BagSize(bag) == SumOver(DOMAIN bag, bag)

\* inv.amountBilled < inv.amountExpected
IsAnomalous(inv) == inv.amountBilled < inv.amountExpected

----------------------------------------------------------------------------
(* Statistical drift detection: computeDriftDetection, findSpikeStart *)

\* baselineEnd = '2026-02-10', the default baseline boundary
BaselineEndDay == 10
\* driftThreshold = 3.0, the default spike threshold
DefaultDriftThreshold == 3
\* sortedDays.slice(-3): the days of the current period
RecentWindow == 3
\* threshold = 2.0, the default onset threshold of findSpikeStart
DefaultOnsetThreshold == 2

\* service ? invoices.filter(inv => inv.service === service) : invoices
Filtered(invs, service) ==
    IF service = NoService THEN invs
    ELSE FilterBag(invs, LAMBDA k : k.service = service)

\* byDay[day] = {total, anomalies}, day = inv.timestamp.slice(0, 10)
ByDay(filtered) ==
    [d \in {k.timestamp.day : k \in DOMAIN filtered} |->
        [total |-> BagSize(FilterBag(filtered, LAMBDA k : k.timestamp.day = d)),
         anomalies |-> BagSize(FilterBag(filtered,
                          LAMBDA k : k.timestamp.day = d /\ IsAnomalous(k)))]]

\* v.anomalies / v.total of each day (v.total >= 1 for every key of byDay)
DayRates(byDay) == [d \in DOMAIN byDay |-> Rat(byDay[d].anomalies, byDay[d].total)]

\* a variant that takes the boundary day into the baseline
BaselineDaysThroughEnd(byDay, baselineEnd) == {d \in DOMAIN byDay : d <= baselineEnd}

\* the days whose rates make up baselineDays: day < baselineEnd
BaselineDays(byDay, baselineEnd) == {d \in DOMAIN byDay : d < baselineEnd}

\* sortedDays.slice(-3)
RecentDays(byDay) ==
    {d \in DOMAIN byDay : Cardinality({e \in DOMAIN byDay : e > d}) < RecentWindow}

\* rates.length > 0 ? rates.reduce((s, r) => s + r, 0) / rates.length : 0
MeanRate(days, rates) ==
    IF days = {} THEN RInt(0)
    ELSE RDiv(RSumOver(days, rates), RInt(Cardinality(days)))

\* a variant without the no-baseline policy: the current rate itself stands
\* for the factor when the baseline rate is 0
DriftFactorOfCurrentRate(baselineRate, currentRate) ==
    IF baselineRate[1] > 0 THEN RDiv(currentRate, baselineRate) ELSE currentRate

\* baselineRate > 0 ? currentRate / baselineRate : 0
DriftFactor(baselineRate, currentRate) ==
    IF baselineRate[1] > 0 THEN RDiv(currentRate, baselineRate) ELSE RInt(0)

\* a variant that declares a spike at the threshold already
IsSpikeAtThreshold(driftFactor, driftThreshold) == RLeq(RInt(driftThreshold), driftFactor)

\* driftFactor > driftThreshold
IsSpike(driftFactor, driftThreshold) == RLess(RInt(driftThreshold), driftFactor)

\* the sample variance of the baseline rates, 0.0001 for at most one day
Variance(days, rates, baselineRate) ==
    IF Cardinality(days) > 1
    THEN LET sq == [d \in days |->
                       RMul(RSub(rates[d], baselineRate), RSub(rates[d], baselineRate))]
         IN RDiv(RSumOver(days, sq), RInt(Cardinality(days) - 1))
    ELSE Rat(1, 10000)

\* whether Math.sqrt(variance) is rational, and its value then
HasRationalRoot(variance) == IsSquare(variance[1]) /\ IsSquare(variance[2])
RationalRoot(variance) == Rat(ISqrt(variance[1]), ISqrt(variance[2]))

\* zScore > t for an integer t >= 0, zScore = stdDev > 0 ? diff / stdDev : 0
\* and stdDev = Math.sqrt(variance); for an irrational stdDev both sides of
\* diff > t * stdDev are squared
ZScoreAbove(diff, variance, t) ==
    /\ variance[1] > 0
    /\ diff[1] > 0
    /\ IF HasRationalRoot(variance)
       THEN RLess(RMul(RInt(t), RationalRoot(variance)), diff)
       ELSE RLess(RMul(RInt(t * t), variance), RMul(diff, diff))

\* a variant that grades the magnitude of the z-score, whatever its sign
SignificanceOfMagnitude(diff, variance) ==
    IF ZScoreAbove(<<Abs(diff[1]), diff[2]>>, variance, 3) THEN "HIGH_SIGNAL"
    ELSE IF ZScoreAbove(<<Abs(diff[1]), diff[2]>>, variance, 2) THEN "MODERATE"
    ELSE "NOISE"

\* zScore > 3.0 ? 'HIGH_SIGNAL' : (zScore > 2.0 ? 'MODERATE' : 'NOISE')
SignificanceOf(diff, variance) ==
    IF ZScoreAbove(diff, variance, 3) THEN "HIGH_SIGNAL"
    ELSE IF ZScoreAbove(diff, variance, 2) THEN "MODERATE"
    ELSE "NOISE"

\* parseFloat(zScore.toFixed(2)) as zScore * 100
ZScoreFixed(diff, variance) ==
    IF variance[1] = 0 THEN 0
    ELSE IF HasRationalRoot(variance)
    THEN Fixed(RDiv(diff, RationalRoot(variance)), 100)
    ELSE LET zz == RDiv(RMul(diff, diff), variance)
             m == (ISqrt((40000 * zz[1]) \div zz[2]) + 1) \div 2
         IN IF diff[1] < 0 THEN -m ELSE m

\* the per-day history: {date, anomalyRate (percent * 100), driftFactor (* 100)}
DailyDrift(byDay, baselineRate) ==
    LET sortedDays == SortedSeq(DOMAIN byDay)
        rates == DayRates(byDay)
    IN [i \in 1..Len(sortedDays) |->
           [date |-> sortedDays[i],
            anomalyRate |-> Fixed(rates[sortedDays[i]], 10000),
            driftFactor |-> IF baselineRate[1] > 0
                            THEN Fixed(RDiv(rates[sortedDays[i]], baselineRate), 100)
                            ELSE 0]]

\* The DriftResult.  baselineRate and currentRate are percentages * 100,
\* driftFactor and zScore are * 100 (two decimals each).  The stdDev field
\* (four decimals of a square root) is not modelled.
computeDriftDetection(invs, service, baselineEnd, driftThreshold) ==
    LET byDay == ByDay(Filtered(invs, service))
        rates == DayRates(byDay)
        baselineDays == BaselineDays(byDay, baselineEnd)
        baselineRate == MeanRate(baselineDays, rates)
        currentRate == MeanRate(RecentDays(byDay), rates)
        driftFactor == DriftFactor(baselineRate, currentRate)
        variance == Variance(baselineDays, rates, baselineRate)
        diff == RSub(currentRate, baselineRate)
    IN [baselineRate |-> Fixed(baselineRate, 10000),
        currentRate |-> Fixed(currentRate, 10000),
        driftFactor |-> Fixed(driftFactor, 100),
        zScore |-> ZScoreFixed(diff, variance),
        statistical_significance |-> SignificanceOf(diff, variance),
        spike |-> IsSpike(driftFactor, driftThreshold),
        threshold |-> driftThreshold,
        dailyDrift |-> DailyDrift(byDay, baselineRate)]

\* a variant that takes a factor equal to the threshold for a spike
findSpikeStartAtThreshold(dailyDrift, threshold) ==
    LET hits == {i \in 1..Len(dailyDrift) : dailyDrift[i].driftFactor >= threshold * 100}
    IN IF hits = {} THEN None
       ELSE Some(dailyDrift[CHOOSE i \in hits : \A j \in hits : i <= j].date)

\* dailyDrift.find(d => d.driftFactor > threshold): its date, or null
findSpikeStart(dailyDrift, threshold) ==
    LET hits == {i \in 1..Len(dailyDrift) : dailyDrift[i].driftFactor > threshold * 100}
    IN IF hits = {} THEN None
       ELSE Some(dailyDrift[CHOOSE i \in hits : \A j \in hits : i <= j].date)

----------------------------------------------------------------------------
(* Generated inputs *)

Invoice(s, t, billed, expected) ==
    [service |-> s, timestamp |-> t, amountBilled |-> billed, amountExpected |-> expected]

\* (amountBilled, amountExpected): billed in full, underbilled, overbilled
PaidInFull == <<10, 10>>
Underbilled == <<6, 10>>
Overbilled == <<30, 10>>

ObservedDays == (BaselineEndDay - DaysBefore)..(BaselineEndDay + DaysAfter - 1)

SubsetsUpTo(S, n) == {T \in SUBSET S : Cardinality(T) <= n}

\* the bags of at most n distinct records of K, each occurring c \in C times
BagsOver(K, n, C) == UNION {[T -> C] : T \in SubsetsUpTo(K, n)}

\* daily invoice volumes beyond MaxCount
SampleVolumes == {7, 14, 226}

DriftKinds ==
    {Invoice(s, Stamp(d, 9), p[1], p[2]) :
        s \in Services, d \in ObservedDays, p \in {PaidInFull, Underbilled}}

DriftVolumeKinds ==
    {Invoice("billing-service", Stamp(BaselineEndDay - 1, 9), 10, 10),
     Invoice("billing-service", Stamp(BaselineEndDay, 9), 10, 10),
     Invoice("billing-service", Stamp(BaselineEndDay, 9), 6, 10)}

\* the server state after the module has been loaded
ServerInit ==
    /\ ES_REQUIRED \in BOOLEAN
    /\ cachedInvoices = None
    /\ cachedEvents = None
    /\ cachedTransactions = None
    /\ cachedChurn = None
    /\ cachedAgentLogs = <<>>
    /\ queryAuditLog = <<>>
    /\ lastReasoningTrace = None
    /\ clock = 0

NoCall == [op |-> "none"]

----------------------------------------------------------------------------
(* computeDriftDetection applied to generated invoice collections *)

InitDrift ==
    /\ invoices \in BagsOver(DriftKinds, MaxKinds, 1..MaxCount)
                      \cup BagsOver(DriftVolumeKinds, MaxKinds, SampleVolumes)
    /\ events = <<>>
    /\ transactions = <<>>
    /\ churn = <<>>
    /\ ServerInit
    /\ ES_REQUIRED = FALSE
    /\ call = NoCall

\* one call of computeDriftDetection on the generated collection
CallDrift(service, baselineEnd, driftThreshold) ==
    /\ call = NoCall
    /\ call' = [op |-> "computeDriftDetection",
                service |-> service,
                baselineEnd |-> baselineEnd,
                driftThreshold |-> driftThreshold,
                result |-> computeDriftDetection(invoices, service, baselineEnd,
                                                 driftThreshold)]
    /\ UNCHANGED <<dataVars, serverVars>>

NextDrift ==
    \E service \in Services \cup {NoService},
       baselineEnd \in {BaselineEndDay - DaysBefore, BaselineEndDay},
       driftThreshold \in 0..MaxThreshold :
        CallDrift(service, baselineEnd, driftThreshold)

SpecDrift == InitDrift /\ [][NextDrift]_vars

----------------------------------------------------------------------------
(* Claims about computeDriftDetection, checked under SpecDrift *)

IsDriftCall == call.op = "computeDriftDetection"

\* the unrounded rates behind the DriftResult of the call
CallByDay == ByDay(Filtered(invoices, call.service))
CallBaselineDays == BaselineDays(CallByDay, call.baselineEnd)
CallBaselineRate == MeanRate(CallBaselineDays, DayRates(CallByDay))
CallCurrentRate == MeanRate(RecentDays(CallByDay), DayRates(CallByDay))

\* C5 as stated: in the returned DriftResult drift_factor = current_rate /
\* baseline_rate when baseline_rate > 0, drift_factor = 0 when baseline_rate = 0,
\* and drift_factor is never negative.
C5_ReportedRatio ==
    IsDriftCall =>
        LET r == call.result
        IN /\ r.baselineRate > 0 => r.driftFactor * r.baselineRate = 100 * r.currentRate
           /\ r.baselineRate = 0 => r.driftFactor = 0
           /\ r.driftFactor >= 0

\* C5 amended: the returned drift_factor is the quotient of the unrounded
\* current and baseline rates, rounded to two decimals, when the unrounded
\* baseline rate is > 0, and 0 when it is 0; it is never negative.
C5_RoundedRatio ==
    IsDriftCall =>
        LET r == call.result
        IN /\ CallBaselineRate[1] > 0 =>
                 r.driftFactor = Fixed(RDiv(CallCurrentRate, CallBaselineRate), 100)
           /\ CallBaselineRate[1] = 0 => r.driftFactor = 0
           /\ r.driftFactor >= 0

\* both cases of C5 with rates that two decimals cannot hold
C5_Witness ==
    /\ IsDriftCall
    /\ CallBaselineRate[1] > 0
    /\ call.result.driftFactor > 0
    /\ call.result.driftFactor * call.result.baselineRate # 100 * call.result.currentRate

\* C6: with no observed day strictly before the baseline boundary the result
\* has baseline_rate = 0, drift_factor = 0 and is_spike = false, whatever the
\* current rate and the non-negative threshold.
C6_NoBaselineNoSpike ==
    (IsDriftCall /\ CallBaselineDays = {}) =>
        /\ call.result.baselineRate = 0
        /\ call.result.driftFactor = 0
        /\ call.result.spike = FALSE

\* no baseline day, anomalies in the current period, threshold 0
C6_Witness ==
    /\ IsDriftCall
    /\ CallBaselineDays = {}
    /\ call.result.currentRate > 0
    /\ call.driftThreshold = 0

\* C7 as stated: the tier is HIGH_SIGNAL if the reported z_score > 3, MODERATE
\* if 2 < z_score <= 3, and NOISE otherwise.
C7_TierOfReportedZ ==
    IsDriftCall =>
        LET r == call.result
        IN r.statistical_significance =
              (IF r.zScore > 300 THEN "HIGH_SIGNAL"
               ELSE IF r.zScore > 200 THEN "MODERATE"
               ELSE "NOISE")

TierRank(tier) ==
    CASE tier = "NOISE" -> 0
      [] tier = "MODERATE" -> 1
      [] tier = "HIGH_SIGNAL" -> 2

\* the DriftResults of the collection of the call under other arguments
OtherDriftResults ==
    {computeDriftDetection(invoices, s, b, call.driftThreshold) :
        s \in Services \cup {NoService},
        b \in {BaselineEndDay - DaysBefore, BaselineEndDay}}

\* C8 as stated: for any two DriftResults, |z_score| of the first <= |z_score|
\* of the second implies tier of the first <= tier of the second.
C8_MonotoneInAbsZ ==
    IsDriftCall =>
        \A o \in OtherDriftResults :
            LET r == call.result
            IN /\ Abs(r.zScore) <= Abs(o.zScore) =>
                     TierRank(r.statistical_significance)
                         <= TierRank(o.statistical_significance)
               /\ Abs(o.zScore) <= Abs(r.zScore) =>
                     TierRank(o.statistical_significance)
                         <= TierRank(r.statistical_significance)

\* C8 amended: the tier is monotonic in the signed z_score: for any two
\* DriftResults, z_score of the first < z_score of the second implies tier of
\* the first <= tier of the second, and a negative z_score is always NOISE.
C8_MonotoneInSignedZ ==
    IsDriftCall =>
        LET r == call.result
        IN /\ r.zScore < 0 => r.statistical_significance = "NOISE"
           /\ \A o \in OtherDriftResults :
                 /\ r.zScore < o.zScore =>
                       TierRank(r.statistical_significance)
                           <= TierRank(o.statistical_significance)
                 /\ o.zScore < r.zScore =>
                       TierRank(o.statistical_significance)
                           <= TierRank(r.statistical_significance)

\* a strongly negative z_score (NOISE) beside a smaller positive one that is
\* HIGH_SIGNAL
C8_Witness ==
    /\ IsDriftCall
    /\ call.result.zScore < -300
    /\ \E o \in OtherDriftResults :
          /\ o.zScore > 300
          /\ o.zScore < -call.result.zScore
          /\ o.statistical_significance = "HIGH_SIGNAL"

----------------------------------------------------------------------------
(* Confidence scorer: computeConfidence *)

\* inv.timestamp < deploymentDate / inv.timestamp >= deploymentDate
Before(serviceInvoices, deploymentDate) ==
    FilterBag(serviceInvoices, LAMBDA k : StampLess(k.timestamp, deploymentDate))
After(serviceInvoices, deploymentDate) ==
    FilterBag(serviceInvoices, LAMBDA k : ~StampLess(k.timestamp, deploymentDate))

\* part.length > 0 ? anomalies of part / part.length : 0
AnomalyFraction(part) ==
    IF BagSize(part) > 0
    THEN Rat(BagSize(FilterBag(part, LAMBDA k : IsAnomalous(k))), BagSize(part))
    ELSE RInt(0)

\* a variant with one tier for every onset up to three days after the
\* deployment
TemporalScoreOfOneTier(spikeStart, deploymentDate) ==
    IF ~spikeStart.some THEN RInt(0)
    ELSE LET diffDays == spikeStart.val - deploymentDate.day
         IN IF diffDays >= 0 /\ diffDays <= 3 THEN RInt(1)
            ELSE IF diffDays < 0 THEN Rat(-1, 2)
            ELSE RInt(0)

\* a variant that gives an onset before the deployment the score of an
\* onset long after it
TemporalScoreWithoutLead(spikeStart, deploymentDate) ==
    IF ~spikeStart.some THEN RInt(0)
    ELSE LET diffDays == spikeStart.val - deploymentDate.day
         IN IF diffDays >= 0 /\ diffDays <= 1 THEN RInt(1)
            ELSE IF diffDays > 1 /\ diffDays <= 3 THEN Rat(7, 10)
            ELSE RInt(0)

\* temporalScore from diffDays = (spikeStart - deploymentDate.slice(0, 10)) in days
TemporalScore(spikeStart, deploymentDate) ==
    IF ~spikeStart.some THEN RInt(0)
    ELSE LET diffDays == spikeStart.val - deploymentDate.day
         IN IF diffDays >= 0 /\ diffDays <= 1 THEN RInt(1)
            ELSE IF diffDays > 1 /\ diffDays <= 3 THEN Rat(7, 10)
            ELSE IF diffDays < 0 THEN Rat(-1, 2)
            ELSE RInt(0)

\* (temporalScore * 0.6) + Math.min(impactDelta * 5, 0.4)
Confidence(temporalScore, impactDelta) ==
    RAdd(RMul(temporalScore, Rat(6, 10)), RMin(RMul(impactDelta, RInt(5)), Rat(4, 10)))

\* a variant that bounds the confidence from above only
ClampFromAbove(confidence) == RMin(RInt(1), confidence)

\* Math.max(-1, Math.min(1, confidence))
Clamp(confidence) == RMax(RInt(-1), RMin(RInt(1), confidence))

\* the classification of the clamped confidence
Classification(clampedConfidence) ==
    IF RLeq(Rat(7, 10), clampedConfidence) THEN "STRONG CAUSAL LINK"
    ELSE IF RLeq(Rat(3, 10), clampedConfidence) THEN "MODERATE CORRELATION"
    ELSE IF RLeq(RInt(0), clampedConfidence) THEN "WEAK SIGNAL"
    ELSE "INVERSE CORRELATION"

\* The AttributionScore.  confidence is * 10000 (four decimals), rateBefore and
\* rateAfter are percentages * 100, temporalScore is the exact rational,
\* spikeStart is None or Some(day).
computeConfidence(invs, service, deploymentDate) ==
    LET serviceInvoices == FilterBag(invs, LAMBDA k : k.service = service)
        drift == computeDriftDetection(serviceInvoices, NoService, BaselineEndDay,
                                       DefaultDriftThreshold)
        spikeStart == findSpikeStart(drift.dailyDrift, DefaultOnsetThreshold)
        rateBefore == AnomalyFraction(Before(serviceInvoices, deploymentDate))
        rateAfter == AnomalyFraction(After(serviceInvoices, deploymentDate))
        temporalScore == TemporalScore(spikeStart, deploymentDate)
        impactDelta == RSub(rateAfter, rateBefore)
        clampedConfidence == Clamp(Confidence(temporalScore, impactDelta))
    IN [confidence |-> Fixed(clampedConfidence, 10000),
        classification |-> Classification(clampedConfidence),
        temporalScore |-> temporalScore,
        spikeStart |-> spikeStart,
        rateBefore |-> Fixed(rateBefore, 10000),
        rateAfter |-> Fixed(rateAfter, 10000)]

----------------------------------------------------------------------------
(* computeConfidence applied to generated invoice collections *)

\* the hour of the deployment timestamps
DeployHour == 13

ConfKinds ==
    {Invoice(s, Stamp(d, 9), p[1], p[2]) :
        s \in Services, d \in ObservedDays, p \in {PaidInFull, Underbilled}}
    \cup {Invoice("billing-service", Stamp(BaselineEndDay, 18), p[1], p[2]) :
            p \in {PaidInFull, Underbilled}}

\* invoice volumes of the partitions before and after a deployment
PartitionVolumes == {1, 315, 316}

ConfVolumeKinds ==
    {Invoice("billing-service", Stamp(d, 9), p[1], p[2]) :
        d \in {BaselineEndDay - 1, BaselineEndDay}, p \in {PaidInFull, Underbilled}}

\* the days of the candidate deployments: up to four days before the boundary
DeployDays == (BaselineEndDay - 4)..(BaselineEndDay + DaysAfter - 1)

\* a baseline day, a day of underbilling only, and a day of invoices issued
\* after the hour of the deployments
LeadKinds ==
    {Invoice("billing-service", Stamp(BaselineEndDay - 1, 9), p[1], p[2]) :
        p \in {PaidInFull, Underbilled}}
    \cup {Invoice("billing-service", Stamp(BaselineEndDay, 9), 6, 10)}
    \cup {Invoice("billing-service", Stamp(BaselineEndDay + 1, 18), p[1], p[2]) :
            p \in {PaidInFull, Underbilled}}

InitConf ==
    /\ invoices \in BagsOver(ConfKinds, MaxKinds, 1..MaxCount)
                      \cup [ConfVolumeKinds -> PartitionVolumes]
                      \cup [LeadKinds -> 1..MaxCount]
    /\ events = <<>>
    /\ transactions = <<>>
    /\ churn = <<>>
    /\ ServerInit
    /\ ES_REQUIRED = FALSE
    /\ call = NoCall

\* one call of computeConfidence on the generated collection
CallConfidence(service, deploymentDate) ==
    /\ call = NoCall
    /\ call' = [op |-> "computeConfidence",
                service |-> service,
                deploymentDate |-> deploymentDate,
                result |-> computeConfidence(invoices, service, deploymentDate)]
    /\ UNCHANGED <<dataVars, serverVars>>

NextConf ==
    \E service \in Services, d \in DeployDays :
        CallConfidence(service, Stamp(d, DeployHour))

SpecConf == InitConf /\ [][NextConf]_vars

----------------------------------------------------------------------------
(* Claims about computeConfidence, checked under SpecConf *)

IsConfCall == call.op = "computeConfidence"

\* the unrounded impact_delta = rate_after - rate_before of the call
CallServiceInvoices == FilterBag(invoices, LAMBDA k : k.service = call.service)
CallImpactDelta ==
    RSub(AnomalyFraction(After(CallServiceInvoices, call.deploymentDate)),
         AnomalyFraction(Before(CallServiceInvoices, call.deploymentDate)))

\* temporal_score * 0.6 + min(impact_delta * 5, 0.4) clamped to [-1, 1]
CallFormula ==
    LET c == RAdd(RMul(call.result.temporalScore, Rat(3, 5)),
                  RMin(RMul(RInt(5), CallImpactDelta), Rat(2, 5)))
    IN IF RLess(c, RInt(-1)) THEN RInt(-1)
       ELSE IF RLess(RInt(1), c) THEN RInt(1)
       ELSE c

\* C3 as stated: the returned confidence equals temporal_score * 0.6 +
\* min(impact_delta * 5, 0.4) clamped to [-1, 1], and lies in [-1, 1].
C3_ExactFormula ==
    IsConfCall =>
        /\ Rat(call.result.confidence, 10000) = CallFormula
        /\ call.result.confidence >= -10000
        /\ call.result.confidence <= 10000

\* C3 amended: the returned confidence equals temporal_score * 0.6 +
\* min(impact_delta * 5, 0.4) clamped to [-1, 1] and then rounded to four
\* decimals, and lies in [-1, 1] for every input.
C3_RoundedFormula ==
    IsConfCall =>
        /\ call.result.confidence = Fixed(CallFormula, 10000)
        /\ call.result.confidence >= -10000
        /\ call.result.confidence <= 10000

\* an impact_delta extreme enough for the lower clamp to act, and one whose
\* confidence four decimals cannot hold
C3_WitnessClamped ==
    /\ IsConfCall
    /\ RLess(RMul(RInt(5), CallImpactDelta), RInt(-1))
    /\ call.result.confidence = -10000

C3_Witness ==
    /\ IsConfCall
    /\ call.result.temporalScore = RInt(1)
    /\ Rat(call.result.confidence, 10000) # CallFormula

\* C4 as stated: the classification is determined by the returned confidence
\* alone: STRONG iff confidence >= 0.7, MODERATE iff 0.3 <= confidence < 0.7,
\* WEAK iff 0 <= confidence < 0.3, INVERSE iff confidence < 0.
C4_ClassOfReturnedConfidence ==
    IsConfCall =>
        LET r == call.result
        IN r.classification =
              (IF r.confidence >= 7000 THEN "STRONG CAUSAL LINK"
               ELSE IF r.confidence >= 3000 THEN "MODERATE CORRELATION"
               ELSE IF r.confidence >= 0 THEN "WEAK SIGNAL"
               ELSE "INVERSE CORRELATION")

----------------------------------------------------------------------------
(* Deployment recency and the composite risk model: computeRecencyFactor,
   computeRiskScore *)

\* now = new Date('2026-02-21T23:59:59Z'): the last day of the dataset
DatasetEndDay == 21
\* decayConstant = 7
DecayConstant == 7

\* parseFloat(Math.exp(-daysSince / 7).toFixed(4)) * 10000 for a deployment
\* at 13:00:00Z on day 1..28 of February 2026,
\* daysSince = (now - deployDate) / 86400000 = 21 - day + 39599 / 86400
RecencyFactorByDay ==
    <<538, 621, 716, 826, 953, 1099, 1268, 1462, 1687, 1946, 2245, 2589, 2987, 3446,
      3975, 4585, 5289, 6102, 7039, 8119, 9366, 10805, 12464, 14378, 16586, 19133,
      22071, 25460>>

\* parseFloat(daysSince.toFixed(1)) * 10: day 21 at 13:00:00Z is 0.4583 -> 0.5
DaysSinceByDay == [d \in 1..28 |-> (DatasetEndDay - d) * 10 + 5]

\* recencyFactor is * 10000 (four decimals), daysSinceDeployment is * 10
computeRecencyFactor(deploymentTimestamp) ==
    [daysSinceDeployment |-> DaysSinceByDay[deploymentTimestamp.day],
     decayConstant |-> DecayConstant,
     recencyFactor |-> RecencyFactorByDay[deploymentTimestamp.day]]

\* the first element, in array order, of
\* seq.filter(keep).sort((a, b) => key(b) - key(a)), or None: the sort is stable
FirstOfSortedDesc(seq, keep(_), key(_)) ==
    LET kept == {i \in 1..Len(seq) : keep(seq[i])}
    IN IF kept = {} THEN None
       ELSE Some(seq[CHOOSE i \in kept :
                        /\ \A j \in kept : key(seq[j]) <= key(seq[i])
                        /\ \A j \in kept : key(seq[j]) = key(seq[i]) => i <= j])

\* new Date(e.timestamp) as a number
TimeOf(e) == e.timestamp.day * 24 + e.timestamp.hour

\* invoices.reduce((s, inv) => s + inv.amountExpected, 0) and the same of amountBilled
TotalExpected(invs) == SumOver(DOMAIN invs, [k \in DOMAIN invs |-> k.amountExpected * invs[k]])
TotalBilled(invs) == SumOver(DOMAIN invs, [k \in DOMAIN invs |-> k.amountBilled * invs[k]])

\* totalInvoices > 0 ? anomalies.length / totalInvoices : 0
AnomalyRate(invs) == AnomalyFraction(invs)

\* totalExpected > 0 ? totalLoss / totalExpected : 0
LossRatio(invs) ==
    IF TotalExpected(invs) > 0
    THEN Rat(TotalExpected(invs) - TotalBilled(invs), TotalExpected(invs))
    ELSE RInt(0)

\* the recency of the most recent deployment, a collection without one
\* counting as deployed on the last day of the dataset
RecencyOfLastDay(evts) ==
    LET latestDeployment ==
            FirstOfSortedDesc(evts, LAMBDA e : e.eventType = "deployment", TimeOf)
    IN IF latestDeployment.some
       THEN computeRecencyFactor(latestDeployment.val.timestamp)
       ELSE [recencyFactor |-> 10000, daysSinceDeployment |-> 0]

\* the recency of the most recent deployment, or the default without one
RecencyOf(evts) ==
    LET latestDeployment ==
            FirstOfSortedDesc(evts, LAMBDA e : e.eventType = "deployment", TimeOf)
    IN IF latestDeployment.some
       THEN computeRecencyFactor(latestDeployment.val.timestamp)
       ELSE [recencyFactor |-> 0, daysSinceDeployment |-> 9990]

\* Math.min(anomalyRate * 2, 1.0)
AnomalyRateNorm(anomalyRate) == RMin(RMul(anomalyRate, RInt(2)), RInt(1))
\* a variant that caps the loss ratio itself
LossNormOfRatio(lossRatio) == RMin(lossRatio, RInt(1))
\* Math.min(lossRatio * 10, 1.0)
LossNorm(lossRatio) == RMin(RMul(lossRatio, RInt(10)), RInt(1))

WeightAnomalyRate == Rat(40, 100)
WeightFinancialImpact == Rat(35, 100)
WeightDeploymentRecency == Rat(25, 100)

\* (anomalyRateNorm * 0.4) + (lossNorm * 0.35) + (recency.recencyFactor * 0.25)
Score(anomalyRateNorm, lossNorm, recencyFactor) ==
    RAdd(RAdd(RMul(anomalyRateNorm, WeightAnomalyRate),
              RMul(lossNorm, WeightFinancialImpact)),
         RMul(Rat(recencyFactor, 10000), WeightDeploymentRecency))

Category(score) ==
    IF RLess(Rat(8, 10), score) THEN "CRITICAL"
    ELSE IF RLess(Rat(6, 10), score) THEN "HIGH"
    ELSE IF RLess(Rat(3, 10), score) THEN "MEDIUM"
    ELSE "LOW"

\* The RiskScore.  score, normalized and contribution are * 10000, raw is a
\* percentage * 100, lossRatio a percentage * 10000, weight the exact rational;
\* deploymentRecency spreads the fields of recency.
computeRiskScore(invs, evts) ==
    LET anomalyRate == AnomalyRate(invs)
        lossRatio == LossRatio(invs)
        recency == RecencyOf(evts)
        anomalyRateNorm == AnomalyRateNorm(anomalyRate)
        lossNorm == LossNorm(lossRatio)
        score == Score(anomalyRateNorm, lossNorm, recency.recencyFactor)
    IN [score |-> Fixed(score, 10000),
        category |-> Category(score),
        components |->
            [anomalyRate |->
                [raw |-> Fixed(anomalyRate, 10000),
                 normalized |-> Fixed(anomalyRateNorm, 10000),
                 weight |-> WeightAnomalyRate,
                 contribution |-> Fixed(RMul(anomalyRateNorm, WeightAnomalyRate), 10000)],
             financialImpact |->
                [lossRatio |-> Fixed(lossRatio, 1000000),
                 normalized |-> Fixed(lossNorm, 10000),
                 weight |-> WeightFinancialImpact,
                 contribution |-> Fixed(RMul(lossNorm, WeightFinancialImpact), 10000)],
             deploymentRecency |->
                recency @@
                [weight |-> WeightDeploymentRecency,
                 contribution |-> Fixed(RMul(Rat(recency.recencyFactor, 10000),
                                             WeightDeploymentRecency), 10000)]]]

----------------------------------------------------------------------------
(* computeRiskScore applied to generated invoice and event collections *)

\* events in a generated event sequence
MaxEvents == 2

SlightlyUnderbilled == <<9, 10>>

\* version labels of the generated events, by position in the sequence
Versions == <<"v1.0.1", "v1.0.2", "v1.0.3", "v1.0.4">>

EventTypes == {"deployment", "config_change"}

Event(s, type, version, t) ==
    [service |-> s, eventType |-> type, version |-> version, timestamp |-> t]

\* the event sequences of at most n events on the given days, at the
\* deployment hour
EventSeqs(days, n) ==
    UNION {{[i \in 1..len |-> Event(f[i][1], f[i][2], Versions[i], Stamp(f[i][3], DeployHour))] :
              f \in [1..len -> Services \X EventTypes \X days]} : len \in 0..n}

RiskKinds ==
    {Invoice("billing-service", Stamp(BaselineEndDay, 9), p[1], p[2]) :
        p \in {PaidInFull, SlightlyUnderbilled, Underbilled, Overbilled}}

\* a deployment inside the dataset and one stamped after its last day
RiskEventDays == {BaselineEndDay - 1, DatasetEndDay + 2}

InitRisk ==
    /\ invoices \in BagsOver(RiskKinds, MaxKinds, 1..MaxCount)
    /\ events \in EventSeqs(RiskEventDays, MaxEvents)
    /\ transactions = <<>>
    /\ churn = <<>>
    /\ ServerInit
    /\ ES_REQUIRED = FALSE
    /\ call = NoCall

\* one call of computeRiskScore on the generated collections
CallRisk ==
    /\ call = NoCall
    /\ call' = [op |-> "computeRiskScore",
                result |-> computeRiskScore(invoices, events)]
    /\ UNCHANGED <<dataVars, serverVars>>

NextRisk == CallRisk

SpecRisk == InitRisk /\ [][NextRisk]_vars

----------------------------------------------------------------------------
(* Claims about computeRiskScore, checked under SpecRisk *)

IsRiskCall == call.op = "computeRiskScore"

\* C9: for every invoice set and event set the score lies in [0, 1], and the
\* three component weights sum to exactly 1.
C9_ScoreInUnitInterval ==
    IsRiskCall =>
        LET r == call.result
        IN /\ r.score >= 0
           /\ r.score <= 10000
           /\ RAdd(RAdd(r.components.anomalyRate.weight,
                        r.components.financialImpact.weight),
                   r.components.deploymentRecency.weight) = RInt(1)

\* C10: the score is the sum of normalized value * weight over the three
\* components with weights 0.4, 0.35 and 0.25, each reported contribution is
\* that component's normalized value * its weight, and the reported
\* contributions add up to the reported score.
C10_ContributionsAddUp ==
    IsRiskCall =>
        LET r == call.result
            a == r.components.anomalyRate
            f == r.components.financialImpact
            d == r.components.deploymentRecency
        IN /\ a.weight = Rat(4, 10) /\ f.weight = Rat(35, 100) /\ d.weight = Rat(25, 100)
           /\ Rat(r.score, 10000)
                 = RAdd(RAdd(RMul(Rat(a.normalized, 10000), a.weight),
                             RMul(Rat(f.normalized, 10000), f.weight)),
                        RMul(Rat(d.recencyFactor, 10000), d.weight))
           /\ Rat(a.contribution, 10000) = RMul(Rat(a.normalized, 10000), a.weight)
           /\ Rat(f.contribution, 10000) = RMul(Rat(f.normalized, 10000), f.weight)
           /\ Rat(d.contribution, 10000)
                 = RMul(Rat(d.recencyFactor, 10000), d.weight)
           /\ a.contribution + f.contribution + d.contribution = r.score

\* the last conjunct of C10 alone: the reported contributions add up to the
\* reported score
C10_SumOfContributions ==
    IsRiskCall =>
        LET r == call.result
        IN r.components.anomalyRate.contribution
              + r.components.financialImpact.contribution
              + r.components.deploymentRecency.contribution = r.score

----------------------------------------------------------------------------
(* The agent tools and POST /api/agent/analyze *)

\* if (queryAuditLog.length > 50) queryAuditLog.shift()
AuditLogCap == 50

\* a variant that drops the entry just pushed when the log is full
logAnalyticProofKeepingOldest(log, now, index, label, count) ==
    LET pushed == Append(log, [timestamp |-> now, index |-> index, label |-> label,
                               recordCount |-> count])
    IN IF Len(pushed) > AuditLogCap THEN log ELSE pushed

\* queryAuditLog after logAnalyticProof(index, label, count) at instant now
logAnalyticProof(log, now, index, label, count) ==
    LET pushed == Append(log, [timestamp |-> now, index |-> index, label |-> label,
                               recordCount |-> count])
    IN IF Len(pushed) > AuditLogCap THEN Tail(pushed) ELSE pushed

\* a variant that keeps the deployments of every service
get_deployment_historyOfAll(service, evts) ==
    SelectSeq(evts, LAMBDA e : e.eventType = "deployment")

\* events.filter(e => e.service === service && e.eventType === 'deployment')
get_deployment_history(service, evts) ==
    SelectSeq(evts, LAMBDA e : e.service = service /\ e.eventType = "deployment")

\* r.timestamp >= spikeStart for a 'YYYY-MM-DD' spikeStart: the longer string
\* with an equal prefix is the greater
AtOrAfter(record, spikeStart) == spikeStart.some /\ record.timestamp.day >= spikeStart.val

\* the number of FAILED transactions from the spike start on
get_transaction_failures(trans, spikeStart) ==
    Len(SelectSeq(trans, LAMBDA t : t.status = "FAILED" /\ AtOrAfter(t, spikeStart)))

\* the number of churn events from the spike start on
get_churn_risk(churnEvents, spikeStart) ==
    Len(SelectSeq(churnEvents, LAMBDA c : AtOrAfter(c, spikeStart)))

forecast_loss(totalLoss) ==
    [observed_loss |-> totalLoss,
     monthly_projection |-> RMul(RInt(totalLoss), Rat(14, 10)),
     annualized_risk |-> RMul(RInt(totalLoss * 12), Rat(2, 10)),
     protected_arr |-> totalLoss * 8]

\* a variant that trusts any culprit
IsConfidentAlways(culprit) == culprit.some

\* a culprit whose confidence is > 0.5: culprit?.confidence > 0.5
IsConfident(culprit) == culprit.some /\ culprit.val.confidence > 5000

RollBack(version) == <<"Roll back", version, "immediately">>

\* a variant that treats a missing culprit as a failure of the investigation
generate_decisionOfCulprit(culprit) ==
    [verdict |-> IF ~culprit.some THEN "NO_CANDIDATE_EVENT"
                 ELSE IF IsConfident(culprit) THEN "CAUSAL_LINK_CONFIRMED"
                 ELSE "ANOMALY_DETECTED_UNCLEAR_CAUSE",
     recommended_actions |->
         IF IsConfident(culprit)
         THEN <<RollBack(culprit.val.version), <<"Verify pricing lookup cache">> >>
         ELSE << <<"Initiate cross-service telemetry audit">>,
                 <<"Monitor transaction success rates">> >>,
     confidence |-> IF culprit.some THEN culprit.val.confidence ELSE 0]

\* culprit is None (undefined) or Some(deployment with confidence)
generate_decision(culprit) ==
    [verdict |-> IF IsConfident(culprit) THEN "CAUSAL_LINK_CONFIRMED"
                 ELSE "ANOMALY_DETECTED_UNCLEAR_CAUSE",
     recommended_actions |->
         IF IsConfident(culprit)
         THEN <<RollBack(culprit.val.version), <<"Verify pricing lookup cache">> >>
         ELSE << <<"Initiate cross-service telemetry audit">>,
                 <<"Monitor transaction success rates">> >>,
     confidence |-> IF culprit.some THEN culprit.val.confidence ELSE 0]

\* a variant in which the correlation of both signals is one entry
buildReasoningTraceOfFive(drift, culprit, failedTransactions, churnCount, forecast, decision) ==
    << [step |-> "Detect (ES|QL)",
        evidence |-> [z_score |-> drift.zScore]],
       [step |-> "Investigate (Deployments)",
        evidence |-> [candidate_deployments |-> IF culprit.some THEN 1 ELSE 0]],
       [step |-> "Correlate (Transactions)",
        evidence |-> [failed_payments |-> failedTransactions,
                      churn_escalations |-> churnCount]],
       [step |-> "Quantify (Impact)",
        evidence |-> [observed_loss |-> forecast.observed_loss]],
       [step |-> "Decide (Autonomous)",
        evidence |-> [verdict |-> decision.verdict]] >>

\* the six {step, evidence} entries; formatted numbers are held as the
\* numbers they print (drift_factor one decimal * 10, causal_confidence a
\* percentage with one decimal * 10)
buildReasoningTrace(drift, culprit, failedTransactions, churnCount, forecast, decision) ==
    << [step |-> "Detect (ES|QL)",
        evidence |-> [drift_factor |-> Fixed(Rat(drift.driftFactor, 100), 10),
                      statistical_significance |-> drift.statistical_significance,
                      z_score |-> drift.zScore]],
       [step |-> "Investigate (Deployments)",
        evidence |-> [candidate_deployments |-> IF culprit.some THEN 1 ELSE 0,
                      selected_culprit |-> IF culprit.some THEN culprit.val.version
                                           ELSE "None",
                      causal_confidence |->
                          IF culprit.some THEN Fixed(Rat(culprit.val.confidence, 100), 10)
                          ELSE 0]],
       [step |-> "Correlate (Transactions)",
        evidence |-> [failed_payments |-> failedTransactions,
                      correlation_window |-> "Spike Start to Now"]],
       [step |-> "Correlate (Churn)",
        evidence |-> [churn_escalations |-> churnCount,
                      signal_alignment |-> "Moderate-High"]],
       [step |-> "Quantify (Impact)",
        evidence |-> [observed_loss |-> forecast.observed_loss,
                      protected_arr |-> forecast.protected_arr]],
       [step |-> "Decide (Autonomous)",
        evidence |-> [verdict |-> decision.verdict,
                      actions |-> decision.recommended_actions]] >>

\* history.map(dep => ({version, timestamp, confidence, classification, spikeStart}))
DeploymentsWithConfidence(history, invs, service) ==
    [i \in 1..Len(history) |->
        LET conf == computeConfidence(invs, service, history[i].timestamp)
        IN [version |-> history[i].version,
            timestamp |-> history[i].timestamp,
            confidence |-> conf.confidence,
            classification |-> conf.classification,
            spikeStart |-> conf.spikeStart]]

\* deploymentsWithConfidence.sort((a, b) => b.confidence - a.confidence)[0]
Culprit(deploymentsWithConfidence) ==
    FirstOfSortedDesc(deploymentsWithConfidence, LAMBDA d : TRUE, LAMBDA d : d.confidence)

\* the sum of amountExpected - amountBilled over the anomalous invoices
TotalLoss(serviceInvoices) ==
    SumOver(DOMAIN serviceInvoices,
            [k \in DOMAIN serviceInvoices |->
                IF IsAnomalous(k)
                THEN (k.amountExpected - k.amountBilled) * serviceInvoices[k]
                ELSE 0])

\* req.body.service || 'billing-service'
TargetService(bodyService) ==
    IF bodyService = NoService THEN "billing-service" ELSE bodyService

\* what the tools return, in the handler's call order, over the record
\* collections read through the caches
ToolResults(bodyService, invs, evts, trans, churnEvents) ==
    LET service == TargetService(bodyService)
        serviceInvoices == FilterBag(invs, LAMBDA k : k.service = service)
        drift == computeDriftDetection(serviceInvoices, NoService, BaselineEndDay,
                                       DefaultDriftThreshold)
        spikeStart == findSpikeStart(drift.dailyDrift, DefaultOnsetThreshold)
        history == get_deployment_history(service, evts)
    IN [service |-> service,
        serviceInvoices |-> serviceInvoices,
        drift |-> drift,
        history |-> history,
        culprit |-> Culprit(DeploymentsWithConfidence(history, invs, service)),
        failedTransactions |-> get_transaction_failures(trans, spikeStart),
        churnCount |-> get_churn_risk(churnEvents, spikeStart),
        totalLoss |-> TotalLoss(serviceInvoices)]

\* the report object of the handler at instant now
Report(tools, esAvailable, now) ==
    LET service == tools.service
        drift == tools.drift
        culprit == tools.culprit
        failedTransactions == tools.failedTransactions
        churnCount == tools.churnCount
        totalLoss == tools.totalLoss
        forecast == forecast_loss(totalLoss)
        decision == generate_decision(culprit)
        trace == buildReasoningTrace(drift, culprit, failedTransactions, churnCount,
                                     forecast, decision)
    IN [metadata |-> [id |-> <<"AGENT-ANALYTIC", now>>, service |-> service,
                      query |-> "", timestamp |-> now,
                      role |-> "Revenue Incident Response Agent"],
        measurable_impact |-> [manual_steps_removed |-> 6,
                               potential_arr_protected |-> forecast.protected_arr],
        verdict |-> decision.verdict,
        culprit |-> culprit,
        financial_impact |-> [observed_loss |-> totalLoss,
                              failed_transactions |-> failedTransactions,
                              correlated_churn_events |-> churnCount,
                              arr_risk |-> forecast.annualized_risk],
        reasoning_trace |-> [steps |-> trace,
                             confidence |-> decision.confidence,
                             mode |-> IF esAvailable THEN "LIVE_ES" ELSE "FALLBACK"],
        reasoning_steps |-> [i \in 1..Len(trace) |->
                                [step |-> trace[i].step, delta |-> trace[i].evidence]],
        executive_summary |->
            IF IsConfident(culprit)
            THEN [template |-> "confirmed", service |-> service,
                  classification |-> culprit.val.classification,
                  version |-> culprit.val.version,
                  spikeStart |-> culprit.val.spikeStart,
                  totalLoss |-> totalLoss, failedTransactions |-> failedTransactions,
                  churnCount |-> churnCount, driftFactor |-> drift.driftFactor]
            ELSE [template |-> "unclear", service |-> service,
                  totalLoss |-> totalLoss, failedTransactions |-> failedTransactions,
                  churnCount |-> churnCount, driftFactor |-> drift.driftFactor],
        recommended_actions |-> decision.recommended_actions,
        confidence_score |-> decision.confidence]

\* the four logAnalyticProof calls of the tools, in call order
AuditAfterAnalyze(log, now, tools) ==
    LET log1 == logAnalyticProof(log, now, "invoices", "Tool: Anomaly Detection",
                                 BagSize(tools.serviceInvoices))
        log2 == logAnalyticProof(log1, now, "system_events", "Tool: Deployment History",
                                 Len(tools.history))
        log3 == logAnalyticProof(log2, now, "transactions", "Tool: Transaction Forensic",
                                 tools.failedTransactions)
    IN logAnalyticProof(log3, now, "churn_events", "Tool: Churn patterns",
                        tools.churnCount)

\* re-reading the file on every get
ReadThroughAlways(cache, stored) == Some(stored)

\* getInvoices(), getEvents(), getTransactions(), getChurn(): the cache after
\* the call; its content is what the call returns
ReadThrough(cache, stored) == IF cache.some THEN cache ELSE Some(stored)

\* analyze requests served in one behaviour
MaxRequests == 1

\* The handler of POST /api/agent/analyze with req.body.service = bodyService,
\* when the Elasticsearch ping answers esAvailable and Date.now() reads now.
\* The handler is taken in one step.
Serve(bodyService, esAvailable, now) ==
    /\ IF ES_REQUIRED /\ ~esAvailable
       THEN /\ call' = [op |-> "analyze", service |-> bodyService, status |-> 503,
                        result |-> [status |-> "LIMITED_MODE"]]
            /\ UNCHANGED <<cachedInvoices, cachedEvents, cachedTransactions, cachedChurn,
                           cachedAgentLogs, queryAuditLog, lastReasoningTrace>>
       ELSE LET invs == ReadThrough(cachedInvoices, invoices)
                evts == ReadThrough(cachedEvents, events)
                trans == ReadThrough(cachedTransactions, transactions)
                churnEvents == ReadThrough(cachedChurn, churn)
            IN \E tools \in {ToolResults(bodyService, invs.val, evts.val, trans.val,
                                         churnEvents.val)} :
               \E report \in {Report(tools, esAvailable, now)} :
                   /\ cachedInvoices' = invs
                   /\ cachedEvents' = evts
                   /\ cachedTransactions' = trans
                   /\ cachedChurn' = churnEvents
                   /\ queryAuditLog' = AuditAfterAnalyze(queryAuditLog, now, tools)
                   /\ lastReasoningTrace' = Some(report.reasoning_trace)
                   /\ cachedAgentLogs' =
                          Append(cachedAgentLogs,
                                 [id |-> <<"LOG", now>>, timestamp |-> now,
                                  action |-> "AGENT_ANALYZE", tool |-> "Orchestrator",
                                  query |-> "", reasoning |-> report.executive_summary,
                                  output |-> report])
                   /\ call' = [op |-> "analyze", service |-> bodyService,
                               status |-> 200, result |-> report]
    /\ UNCHANGED <<dataVars, ES_REQUIRED>>

\* POST /api/agent/analyze, one request after the other, each at a later
\* reading of the clock
Analyze(bodyService, esAvailable) ==
    /\ clock < MaxRequests
    /\ clock' = clock + 1
    /\ Serve(bodyService, esAvailable, clock)

----------------------------------------------------------------------------
(* The server over generated record collections *)

ServerKinds ==
    {Invoice("billing-service", Stamp(BaselineEndDay - 1, 9), p[1], p[2]) :
        p \in {PaidInFull, Underbilled}}
    \cup {Invoice("billing-service", Stamp(BaselineEndDay, 18), p[1], p[2]) :
            p \in {PaidInFull, Underbilled}}
    \cup {Invoice("tax-service", Stamp(BaselineEndDay, 18), 6, 10)}

\* what an event of the generated event files can be: a deployment of either
\* service or another event of the billing service
ServerEventOptions ==
    {<<"billing-service", "deployment", BaselineEndDay>>,
     <<"billing-service", "deployment", BaselineEndDay + 1>>,
     <<"tax-service", "deployment", BaselineEndDay>>,
     <<"billing-service", "config_change", BaselineEndDay>>}

\* events of one file in one behaviour
MaxServerEvents == 3

\* the event files of at most n different events, in any order
ServerEventSeqsUpTo(n) ==
    UNION {{[i \in 1..len |-> Event(f[i][1], f[i][2], Versions[i], Stamp(f[i][3], DeployHour))] :
              f \in {g \in [1..len -> ServerEventOptions] :
                        \A i, j \in 1..len : g[i] = g[j] => i = j}} :
           len \in 0..n}

ServerEventSeqs == ServerEventSeqsUpTo(MaxServerEvents)

Transaction(status, t) == [status |-> status, timestamp |-> t]
ChurnEvent(t) == [eventType |-> "cancellation", timestamp |-> t]

Init ==
    /\ invoices \in BagsOver(ServerKinds, MaxKinds, 1..MaxCount)
    /\ events \in ServerEventSeqs
    /\ transactions = <<Transaction("FAILED", Stamp(BaselineEndDay, 18)),
                         Transaction("SUCCESS", Stamp(BaselineEndDay, 18))>>
    /\ churn = <<ChurnEvent(Stamp(BaselineEndDay - 1, 9)),
                 ChurnEvent(Stamp(BaselineEndDay + 1, 9))>>
    /\ ServerInit
    /\ call = NoCall

Next ==
    \E bodyService \in Services \cup {NoService}, esAvailable \in BOOLEAN :
        Analyze(bodyService, esAvailable)

Spec == Init /\ [][Next]_vars

----------------------------------------------------------------------------
(* Claims about the analyze pipeline *)

IsAnalyzeReport == call.op = "analyze" /\ call.status = 200

DiagnosticActions ==
    << <<"Initiate cross-service telemetry audit">>, <<"Monitor transaction success rates">> >>

\* C1: in every report of analyze the verdict is CAUSAL_LINK_CONFIRMED exactly
\* when a culprit exists and its confidence is above 0.5, and then the
\* recommended actions contain the roll-back of the culprit's version; in
\* every other case the verdict is ANOMALY_DETECTED_UNCLEAR_CAUSE and the
\* recommended actions are the diagnostic list.
C1_VerdictFollowsCulprit ==
    IsAnalyzeReport =>
        LET report == call.result
            confident == report.culprit.some /\ report.culprit.val.confidence > 5000
        IN /\ report.verdict = "CAUSAL_LINK_CONFIRMED" <=> confident
           /\ confident =>
                 \E i \in 1..Len(report.recommended_actions) :
                     report.recommended_actions[i] =
                         <<"Roll back", report.culprit.val.version, "immediately">>
           /\ ~confident =>
                 /\ report.verdict = "ANOMALY_DETECTED_UNCLEAR_CAUSE"
                 /\ report.recommended_actions = DiagnosticActions

\* C1 happens: a report confirms a causal link for a culprit chosen among
\* several events
C1_Witness ==
    /\ IsAnalyzeReport
    /\ call.result.verdict = "CAUSAL_LINK_CONFIRMED"
    /\ call.result.culprit.some
    /\ call.result.culprit.val.confidence > 5000
    /\ Len(events) >= 2

\* the positions in evts of the deployments of the service
DeploymentsOf(service, evts) ==
    {i \in 1..Len(evts) : evts[i].service = service /\ evts[i].eventType = "deployment"}

\* C2: the culprit of a report is a deployment event of the target service,
\* its confidence is that of computeConfidence for that deployment and is at
\* least the confidence of every other deployment of the service; an event of
\* another kind or of another service is never the culprit, and there is a
\* culprit whenever the service has a deployment.
C2_CulpritIsBestDeployment ==
    IsAnalyzeReport =>
        LET report == call.result
            service == report.metadata.service
            evts == cachedEvents.val
            candidates == DeploymentsOf(service, evts)
            confidenceOf == [i \in candidates |->
                                computeConfidence(cachedInvoices.val, service,
                                                  evts[i].timestamp).confidence]
        IN /\ report.culprit.some <=> candidates # {}
           /\ report.culprit.some =>
                 /\ \E i \in candidates :
                        /\ evts[i].version = report.culprit.val.version
                        /\ evts[i].timestamp = report.culprit.val.timestamp
                        /\ confidenceOf[i] = report.culprit.val.confidence
                 /\ \A i \in candidates : confidenceOf[i] <= report.culprit.val.confidence
                 /\ \A i \in 1..Len(evts) :
                        evts[i].version = report.culprit.val.version => i \in candidates

\* C2 happens: the culprit is chosen over an earlier deployment of the same
\* service with a lower confidence, in a file that also holds an event that
\* is no candidate
C2_Witness ==
    /\ IsAnalyzeReport
    /\ call.result.culprit.some
    /\ \E i, j, k \in 1..Len(events) :
          /\ i < j
          /\ {i, j} \subseteq DeploymentsOf(call.result.metadata.service, events)
          /\ k \notin DeploymentsOf(call.result.metadata.service, events)
          /\ events[j].version = call.result.culprit.val.version
          /\ computeConfidence(invoices, call.result.metadata.service,
                               events[i].timestamp).confidence
                 < call.result.culprit.val.confidence

----------------------------------------------------------------------------
(* POST /api/agent/analyze stage by stage: the handler awaits each tool, so
   every stage of the orchestration is a step of its own.  call holds the
   handler's position (the stages completed) and the constants it has bound
   so far (out). *)

StageNames == <<"Detect", "Investigate", "Correlate", "Quantify", "Decide", "Explain">>

\* the handler is between its stages, having completed n of them
AtStage(n) == call.op = "analyze" /\ call.status = 0 /\ Len(call.stages) = n

\* the handler's position after one more stage, with the constants it bound
Advance(bound) ==
    [call EXCEPT !.stages = Append(@, StageNames[Len(@) + 1]), !.out = bound @@ @]

\* the request is received: the availability check, then service and the
\* record collections read through the caches
BeginAnalyze(bodyService, esAvailable) ==
    /\ call = NoCall
    /\ IF ES_REQUIRED /\ ~esAvailable
       THEN /\ call' = [op |-> "analyze", service |-> bodyService, status |-> 503,
                        result |-> [status |-> "LIMITED_MODE"]]
            /\ UNCHANGED <<cachedInvoices, cachedEvents, cachedTransactions, cachedChurn>>
       ELSE /\ cachedInvoices' = ReadThrough(cachedInvoices, invoices)
            /\ cachedEvents' = ReadThrough(cachedEvents, events)
            /\ cachedTransactions' = ReadThrough(cachedTransactions, transactions)
            /\ cachedChurn' = ReadThrough(cachedChurn, churn)
            /\ call' = [op |-> "analyze", service |-> bodyService, status |-> 0,
                        esAvailable |-> esAvailable, stages |-> <<>>,
                        out |-> [service |-> TargetService(bodyService),
                                 invoices |-> cachedInvoices'.val,
                                 events |-> cachedEvents'.val,
                                 transactions |-> cachedTransactions'.val,
                                 churn |-> cachedChurn'.val,
                                 serviceInvoices |->
                                     FilterBag(cachedInvoices'.val,
                                               LAMBDA k : k.service
                                                            = TargetService(bodyService))]]
    /\ UNCHANGED <<dataVars, ES_REQUIRED, cachedAgentLogs, queryAuditLog,
                   lastReasoningTrace, clock>>

\* Step 1: drift = await get_anomaly_stats(serviceInvoices); spikeStart
Detect ==
    /\ AtStage(0)
    /\ \E drift \in {computeDriftDetection(call.out.serviceInvoices, NoService,
                                           BaselineEndDay, DefaultDriftThreshold)} :
          /\ call' = Advance([drift |-> drift,
                              spikeStart |-> findSpikeStart(drift.dailyDrift,
                                                            DefaultOnsetThreshold)])
          /\ queryAuditLog' = logAnalyticProof(queryAuditLog, clock, "invoices",
                                               "Tool: Anomaly Detection",
                                               BagSize(call.out.serviceInvoices))
    /\ UNCHANGED <<dataVars, ES_REQUIRED, cachedInvoices, cachedEvents,
                   cachedTransactions, cachedChurn, cachedAgentLogs,
                   lastReasoningTrace, clock>>

\* Step 2: history, deploymentsWithConfidence, culprit
Investigate ==
    /\ AtStage(1)
    /\ \E history \in {get_deployment_history(call.out.service, call.out.events)} :
          /\ call' = Advance([history |-> history,
                              culprit |-> Culprit(DeploymentsWithConfidence(
                                              history, call.out.invoices,
                                              call.out.service))])
          /\ queryAuditLog' = logAnalyticProof(queryAuditLog, clock, "system_events",
                                               "Tool: Deployment History", Len(history))
    /\ UNCHANGED <<dataVars, ES_REQUIRED, cachedInvoices, cachedEvents,
                   cachedTransactions, cachedChurn, cachedAgentLogs,
                   lastReasoningTrace, clock>>

\* Step 3: failedTransactions, churnCount
Correlate ==
    /\ AtStage(2)
    /\ \E failed \in {get_transaction_failures(call.out.transactions,
                                               call.out.spikeStart)},
          churned \in {get_churn_risk(call.out.churn, call.out.spikeStart)} :
          /\ call' = Advance([failedTransactions |-> failed, churnCount |-> churned])
          /\ queryAuditLog' =
                 logAnalyticProof(
                     logAnalyticProof(queryAuditLog, clock, "transactions",
                                      "Tool: Transaction Forensic", failed),
                     clock, "churn_events", "Tool: Churn patterns", churned)
    /\ UNCHANGED <<dataVars, ES_REQUIRED, cachedInvoices, cachedEvents,
                   cachedTransactions, cachedChurn, cachedAgentLogs,
                   lastReasoningTrace, clock>>

\* Step 4: totalLoss, forecast
Quantify ==
    /\ AtStage(3)
    /\ \E totalLoss \in {TotalLoss(call.out.serviceInvoices)} :
          call' = Advance([totalLoss |-> totalLoss, forecast |-> forecast_loss(totalLoss)])
    /\ UNCHANGED <<dataVars, serverVars>>

\* Step 5: decision
Decide ==
    /\ AtStage(4)
    /\ call' = Advance([decision |-> generate_decision(call.out.culprit)])
    /\ UNCHANGED <<dataVars, serverVars>>

\* Step 6: the reasoning trace and the report, the two stores and the response
Explain ==
    /\ AtStage(5)
    /\ \E report \in {Report(call.out, call.esAvailable, clock)} :
          /\ lastReasoningTrace' = Some(report.reasoning_trace)
          /\ cachedAgentLogs' =
                 Append(cachedAgentLogs,
                        [id |-> <<"LOG", clock>>, timestamp |-> clock,
                         action |-> "AGENT_ANALYZE", tool |-> "Orchestrator",
                         query |-> "", reasoning |-> report.executive_summary,
                         output |-> report])
          /\ call' = [Advance([trace |-> report.reasoning_trace.steps])
                         EXCEPT !.status = 200] @@ [result |-> report]
    /\ clock' = clock + 1
    /\ UNCHANGED <<dataVars, ES_REQUIRED, cachedInvoices, cachedEvents,
                   cachedTransactions, cachedChurn, queryAuditLog>>

\* distinct invoice records in a record collection of the staged handler
MaxStagedKinds == 2

InitStages ==
    /\ invoices \in BagsOver(ServerKinds, MaxStagedKinds, {1})
    /\ events \in ServerEventSeqs
    /\ transactions = <<Transaction("FAILED", Stamp(BaselineEndDay, 18)),
                         Transaction("SUCCESS", Stamp(BaselineEndDay, 18))>>
    /\ churn = <<ChurnEvent(Stamp(BaselineEndDay - 1, 9)),
                 ChurnEvent(Stamp(BaselineEndDay + 1, 9))>>
    /\ ServerInit
    /\ call = NoCall

NextStages ==
    \/ \E bodyService \in Services \cup {NoService}, esAvailable \in BOOLEAN :
          BeginAnalyze(bodyService, esAvailable)
    \/ Detect
    \/ Investigate
    \/ Correlate
    \/ Quantify
    \/ Decide
    \/ Explain

SpecStages == InitStages /\ [][NextStages]_vars

----------------------------------------------------------------------------
(* Claims about the stages of the analyze handler, checked under SpecStages *)

IsStagedCall == call.op = "analyze" /\ call.status \in {0, 200}

\* the stage that a step label of the reasoning trace names
StageOfStep(step) ==
    CASE step = "Detect (ES|QL)" -> "Detect"
      [] step = "Investigate (Deployments)" -> "Investigate"
      [] step = "Correlate (Transactions)" -> "Correlate"
      [] step = "Correlate (Churn)" -> "Correlate"
      [] step = "Quantify (Impact)" -> "Quantify"
      [] step = "Decide (Autonomous)" -> "Decide"
      [] OTHER -> "none"

\* the reasoning trace as far as the handler has built it
TraceSoFar == IF "trace" \in DOMAIN call.out THEN call.out.trace ELSE <<>>

\* the stages completed are the first stages of the pipeline, in its order
StagesInOrder ==
    /\ Len(call.stages) <= Len(StageNames)
    /\ \A i \in 1..Len(call.stages) : call.stages[i] = StageNames[i]

----------------------------------------------------------------------------
(* Repeated analyze requests over one record snapshot, while the system
   clock runs *)

\* analyze reports produced in one behaviour
MaxRepeats == 2
\* last reading of the system clock
MaxTicks == 1

\* time passes between two requests
Tick ==
    /\ clock < MaxTicks
    /\ clock' = clock + 1
    /\ UNCHANGED <<dataVars, ES_REQUIRED, cachedInvoices, cachedEvents,
                   cachedTransactions, cachedChurn, cachedAgentLogs, queryAuditLog,
                   lastReasoningTrace, call>>

\* POST /api/agent/analyze at the present reading of the clock
AnalyzeAgain(bodyService, esAvailable) ==
    /\ Len(cachedAgentLogs) < MaxRepeats
    /\ Serve(bodyService, esAvailable, clock)
    /\ UNCHANGED clock

NextTwice ==
    \/ Tick
    \/ \E bodyService \in Services \cup {NoService}, esAvailable \in BOOLEAN :
          AnalyzeAgain(bodyService, esAvailable)

\* events of the snapshot
MaxRepeatEvents == 1

InitTwice ==
    /\ invoices \in BagsOver(ServerKinds, MaxStagedKinds, {1})
    /\ events \in ServerEventSeqsUpTo(MaxRepeatEvents)
    /\ transactions = <<Transaction("FAILED", Stamp(BaselineEndDay, 18))>>
    /\ churn = <<ChurnEvent(Stamp(BaselineEndDay + 1, 9))>>
    /\ ServerInit
    /\ call = NoCall

SpecTwice == InitTwice /\ [][NextTwice]_vars

\* C12: two analyze invocations with the same request over the same record
\* snapshot, in the same mode, produce identical reports; nothing in a report
\* comes from the system clock or from an earlier invocation.
C12_SameInputsSameReport ==
    \A i, j \in 1..Len(cachedAgentLogs) :
        LET first == cachedAgentLogs[i].output
            second == cachedAgentLogs[j].output
        IN (/\ first.metadata.service = second.metadata.service
            /\ first.metadata.query = second.metadata.query
            /\ first.reasoning_trace.mode = second.reasoning_trace.mode)
               => first = second

\* what a report holds apart from the two readings of the clock
ReportBody(report) ==
    [field \in DOMAIN report \ {"metadata"} |-> report[field]]
        @@ [service |-> report.metadata.service, query |-> report.metadata.query]

\* the part of C12 that the code keeps: apart from metadata.id and
\* metadata.timestamp, the two reports are identical
C12_SameInputsSameBody ==
    \A i, j \in 1..Len(cachedAgentLogs) :
        LET first == cachedAgentLogs[i].output
            second == cachedAgentLogs[j].output
        IN (/\ first.metadata.service = second.metadata.service
            /\ first.reasoning_trace.mode = second.reasoning_trace.mode)
               => ReportBody(first) = ReportBody(second)

----------------------------------------------------------------------------
(* Claims about investigations without a candidate, checked under Spec *)

\* the service that the request of the last call targets
CallTarget == IF call.service = NoService THEN "billing-service" ELSE call.service

\* C13: when the record snapshot holds no deployment event of the target
\* service, an analyze invocation that passes the availability gate completes
\* with status 200, verdict ANOMALY_DETECTED_UNCLEAR_CAUSE, culprit null and
\* the diagnostic action list; the only other response is the 503 of the
\* gate, which does not depend on the snapshot.
C13_NoCandidateIsNoError ==
    (call.op = "analyze" /\ DeploymentsOf(CallTarget, events) = {}) =>
        \/ /\ call.status = 503
           /\ ES_REQUIRED
        \/ /\ call.status = 200
           /\ call.result.verdict = "ANOMALY_DETECTED_UNCLEAR_CAUSE"
           /\ call.result.culprit = None
           /\ call.result.recommended_actions = DiagnosticActions
           /\ call.result.confidence_score = 0

\* C13 happens: a report for a service without a deployment, over a snapshot
\* that holds events of another kind or of another service and anomalous
\* invoices of the target
C13_Witness ==
    /\ IsAnalyzeReport
    /\ DeploymentsOf(CallTarget, events) = {}
    /\ Len(events) >= 2
    /\ call.result.financial_impact.observed_loss > 0

----------------------------------------------------------------------------
(* The read endpoints GET /api/anomalies, GET /api/risk-score and
   GET /api/financial-loss, and the server with all its endpoints over small
   record snapshots *)

\* req.query.service || null, then service ? xs.filter(x => x.service === service) : xs
ServiceEvents(evts, service) ==
    IF service = NoService THEN evts
    ELSE SelectSeq(evts, LAMBDA e : e.service = service)

\* service || 'all'
FilterLabel(service) == IF service = NoService THEN "all" ELSE service

\* .slice(0, 50) of the anomalies sorted by loss
TopAnomalies == 50

\* the days of the window that the projections of /api/financial-loss assume
ProjectionWindowDays == 21

\* the body of GET /api/anomalies; of topAnomalies only the length is held
AnomaliesBody(invs, service) ==
    LET filtered == Filtered(invs, service)
        anomalies == FilterBag(filtered, IsAnomalous)
        totalInvoices == BagSize(filtered)
        anomalyCount == BagSize(anomalies)
    IN [totalInvoices |-> totalInvoices,
        anomalyCount |-> anomalyCount,
        anomalyRate |-> IF totalInvoices > 0
                        THEN Fixed(Rat(anomalyCount * 100, totalInvoices), 100)
                        ELSE 0,
        drift |-> computeDriftDetection(invs, service, BaselineEndDay,
                                        DefaultDriftThreshold),
        topAnomalies |-> IF anomalyCount < TopAnomalies THEN anomalyCount
                         ELSE TopAnomalies,
        filter |-> [service |-> FilterLabel(service)]]

\* the body of GET /api/risk-score
RiskScoreBody(invs, evts, service) ==
    computeRiskScore(Filtered(invs, service), ServiceEvents(evts, service))
        @@ [filter |-> [service |-> FilterLabel(service)]]

\* the loss per day of the anomalies, by ascending day: {date, loss * 100}
LossTrend(anomalies) ==
    LET sortedDays == SortedSeq({k.timestamp.day : k \in DOMAIN anomalies})
    IN [i \in 1..Len(sortedDays) |->
           [date |-> sortedDays[i],
            loss |-> 100 * TotalLoss(FilterBag(anomalies,
                                LAMBDA k : k.timestamp.day = sortedDays[i]))]]

\* the body of GET /api/financial-loss; amounts are held * 100 (two decimals)
FinancialLossBody(invs, service) ==
    LET filtered == Filtered(invs, service)
        anomalies == FilterBag(filtered, IsAnomalous)
        totalLoss == TotalLoss(filtered)
        totalExpected == TotalExpected(filtered)
    IN [financialLoss |->
            [totalLoss |-> 100 * totalLoss,
             observed_loss |-> 100 * totalLoss,
             projected_monthly_loss |->
                 Fixed(Rat(totalLoss * 30, ProjectionWindowDays), 100),
             projected_annualized_loss |->
                 Fixed(Rat(totalLoss * 365, ProjectionWindowDays), 100),
             revenue_at_risk_percentage |->
                 IF totalExpected > 0 THEN Fixed(Rat(totalLoss * 100, totalExpected), 100)
                 ELSE 0],
        anomalyCount |-> BagSize(anomalies),
        averageLossPerInvoice |->
            IF BagSize(anomalies) > 0 THEN Fixed(Rat(totalLoss, BagSize(anomalies)), 100)
            ELSE 0,
        lossTrend |-> LossTrend(anomalies),
        filter |-> [service |-> FilterLabel(service)]]

\* requests served in one behaviour
MaxApiCalls == 2

\* GET /api/anomalies?service=
GetAnomalies(service) ==
    /\ clock < MaxApiCalls
    /\ clock' = clock + 1
    /\ cachedInvoices' = ReadThrough(cachedInvoices, invoices)
    /\ call' = [op |-> "anomalies", service |-> service, status |-> 200,
                result |-> AnomaliesBody(cachedInvoices'.val, service)]
    /\ UNCHANGED <<dataVars, ES_REQUIRED, cachedEvents, cachedTransactions, cachedChurn,
                   cachedAgentLogs, queryAuditLog, lastReasoningTrace>>

\* GET /api/risk-score?service=
GetRiskScore(service) ==
    /\ clock < MaxApiCalls
    /\ clock' = clock + 1
    /\ cachedInvoices' = ReadThrough(cachedInvoices, invoices)
    /\ cachedEvents' = ReadThrough(cachedEvents, events)
    /\ call' = [op |-> "risk-score", service |-> service, status |-> 200,
                result |-> RiskScoreBody(cachedInvoices'.val, cachedEvents'.val, service)]
    /\ UNCHANGED <<dataVars, ES_REQUIRED, cachedTransactions, cachedChurn,
                   cachedAgentLogs, queryAuditLog, lastReasoningTrace>>

\* GET /api/financial-loss?service=
GetFinancialLoss(service) ==
    /\ clock < MaxApiCalls
    /\ clock' = clock + 1
    /\ cachedInvoices' = ReadThrough(cachedInvoices, invoices)
    /\ call' = [op |-> "financial-loss", service |-> service, status |-> 200,
                result |-> FinancialLossBody(cachedInvoices'.val, service)]
    /\ UNCHANGED <<dataVars, ES_REQUIRED, cachedEvents, cachedTransactions, cachedChurn,
                   cachedAgentLogs, queryAuditLog, lastReasoningTrace>>

\* POST /api/agent/analyze among the other requests
PostAnalyze(bodyService, esAvailable) ==
    /\ clock < MaxApiCalls
    /\ clock' = clock + 1
    /\ Serve(bodyService, esAvailable, clock)

\* the days of a generated window with the same anomaly rate on every day
FlatDays == (BaselineEndDay - 1)..(BaselineEndDay + 1)

\* invoices of one day of such a window, of which one is anomalous: 2%
FlatDailyVolume == 50

\* (amountBilled, amountExpected) of an unpaid invoice of a large account
LargeUnpaid == <<0, 1000>>

\* the windows with one anomalous invoice among FlatDailyVolume on every day,
\* the anomalous one being either slightly underbilled or large and unpaid
FlatBags ==
    {LET paid == [k \in {Invoice("billing-service", Stamp(d, 9), 10, 10) : d \in FlatDays}
                     |-> FlatDailyVolume - 1]
         anomalous == [k \in {Invoice("billing-service", Stamp(d, 9), f[d][1], f[d][2]) :
                                 d \in FlatDays} |-> 1]
     IN paid @@ anomalous :
        f \in [FlatDays -> {Underbilled, LargeUnpaid}]}

\* the snapshots of the data files: any of them may be empty or missing
InitApi ==
    /\ invoices \in FlatBags \cup BagsOver(ServerKinds, MaxStagedKinds, {1})
    /\ events \in ServerEventSeqsUpTo(MaxRepeatEvents)
    /\ \E recorded \in BOOLEAN :
          /\ transactions = IF recorded
                            THEN <<Transaction("FAILED", Stamp(BaselineEndDay, 18))>>
                            ELSE <<>>
          /\ churn = IF recorded THEN <<ChurnEvent(Stamp(BaselineEndDay + 1, 9))>>
                     ELSE <<>>
    /\ ServerInit
    /\ call = NoCall

NextApi ==
    \E service \in Services \cup {NoService} :
        \/ \E esAvailable \in BOOLEAN : PostAnalyze(service, esAvailable)
        \/ GetAnomalies(service)
        \/ GetRiskScore(service)
        \/ GetFinancialLoss(service)

SpecApi == InitApi /\ [][NextApi]_vars

----------------------------------------------------------------------------
(* C14: the empty record set *)

\* no invoices, events, transactions or churn records
EmptyRecordSet ==
    /\ DOMAIN invoices = {}
    /\ events = <<>>
    /\ transactions = <<>>
    /\ churn = <<>>

\* C14: over a snapshot without invoices, events, transactions and churn
\* records no request ends in an exception (status 500): the analysis answers
\* 200 with culprit null (or the 503 of the availability gate), the anomalies
\* endpoint answers 200 with drift.baselineRate = 0 and the risk endpoint
\* answers 200 with score = 0.
C14_EmptyRecordSet ==
    (EmptyRecordSet /\ call # NoCall) =>
        /\ call.status \in {200, 503}
        /\ call.status = 503 => (call.op = "analyze" /\ ES_REQUIRED)
        /\ (call.op = "analyze" /\ call.status = 200) => call.result.culprit = None
        /\ call.op = "anomalies" => call.result.drift.baselineRate = 0
        /\ call.op = "risk-score" => call.result.score = 0

\* C14 happens: over the empty snapshot an analysis has been reported and
\* logged, and the risk score has been asked for after it
C14_Witness ==
    /\ EmptyRecordSet
    /\ Len(cachedAgentLogs) = 1
    /\ call.op = "risk-score"
    /\ call.result.category = "LOW"

----------------------------------------------------------------------------
(* The incident of the generated dataset: the billing service at its baseline
   rate, a faulty deployment, the faulty period, and the fix *)

FaultyDay == 10
FixDay == 17

\* invoices of one day and the anomalous ones among them: 2% and 35%
BaselineVolume == 50
BaselineAnomalies == 1
FaultyVolume == 20
FaultyAnomalies == 7

\* the last day of a snapshot of the dataset, the first being day 1: the
\* recent window at the start and at the end of the faulty period, on the fix
\* and at the end of the dataset
SnapshotEndDays == {FaultyDay + RecentWindow - 1, FixDay - 1, FixDay, DatasetEndDay}

\* the invoices of the billing service of days 1..endDay, all stamped at hour
IncidentBag(endDay, hour) ==
    LET faulty(d) == d >= FaultyDay /\ d < FixDay
        paid == [k \in {Invoice("billing-service", Stamp(d, hour), 10, 10) : d \in 1..endDay}
                    |-> IF faulty(k.timestamp.day) THEN FaultyVolume - FaultyAnomalies
                        ELSE BaselineVolume - BaselineAnomalies]
        underbilled ==
            [k \in {Invoice("billing-service", Stamp(d, hour), 6, 10) : d \in 1..endDay}
                |-> IF faulty(k.timestamp.day) THEN FaultyAnomalies
                    ELSE BaselineAnomalies]
    IN paid @@ underbilled

\* the days of the deployments of the billing service besides the faulty one
\* and the fix
RoutineDays == {7, 9}

\* the deployments of the billing service on the given days, in sequence f
DeploymentsOn(f) ==
    [i \in 1..Len(f) |->
        Event("billing-service", "deployment", Versions[i], Stamp(f[i], DeployHour))]

\* the orders of a set of days
Orders(days) ==
    {f \in [1..Cardinality(days) -> days] : \A i, j \in DOMAIN f : f[i] = f[j] => i = j}

InitIncident ==
    /\ \E endDay \in SnapshotEndDays, hour \in {9, 18} :
          invoices = IncidentBag(endDay, hour)
    /\ \E routine \in SUBSET RoutineDays :
          \E f \in Orders(routine \cup {FaultyDay, FixDay}) : events = DeploymentsOn(f)
    /\ transactions = <<>>
    /\ churn = <<>>
    /\ ServerInit
    /\ call = NoCall

NextIncident ==
    \E service \in Services \cup {NoService} :
        \/ \E esAvailable \in BOOLEAN : Analyze(service, esAvailable)
        \/ GetAnomalies(service)

SpecIncident == InitIncident /\ [][NextIncident]_vars

\* the last day of the snapshot
EndDay == CHOOSE d \in {k.timestamp.day : k \in DOMAIN invoices} :
              \A k \in DOMAIN invoices : k.timestamp.day <= d

\* the version of the deployment of the given day
VersionOn(day) ==
    LET i == CHOOSE j \in 1..Len(events) : events[j].timestamp.day = day
    IN events[i].version

\* C15 (as claimed): in the incident the anomalies of the billing service
\* show a spike while the recent window, the last three days of the snapshot,
\* lies in the faulty period, and the culprit of its analysis is the
\* deployment of the faulty day, classified as a strong causal link.
C15_IncidentCulprit ==
    /\ (call.op = "anomalies" /\ call.service # "tax-service"
            /\ EndDay >= FaultyDay + RecentWindow - 1 /\ EndDay < FixDay)
          => call.result.drift.spike
    /\ (IsAnalyzeReport /\ CallTarget = "billing-service")
          => /\ call.result.culprit # None
             /\ call.result.culprit.val.version = VersionOn(FaultyDay)
             /\ call.result.culprit.val.classification = "STRONG CAUSAL LINK"

\* C15, the part that holds: the spike in the faulty period, and the culprit
\* when no routine deployment falls on the eve of the faulty day
C15_IncidentWithoutEve ==
    /\ (call.op = "anomalies" /\ call.service # "tax-service"
            /\ EndDay >= FaultyDay + RecentWindow - 1 /\ EndDay < FixDay)
          => call.result.drift.spike
    /\ (IsAnalyzeReport /\ CallTarget = "billing-service"
            /\ \A i \in 1..Len(events) : events[i].timestamp.day # FaultyDay - 1)
          => /\ call.result.culprit # None
             /\ call.result.culprit.val.version = VersionOn(FaultyDay)
             /\ call.result.culprit.val.classification = "STRONG CAUSAL LINK"

----------------------------------------------------------------------------
(* C16: a deployment recorded one day after the spike onset, under SpecConf *)

\* the spike onset of the call is the day before the deployment of the call
OnsetOnEve ==
    /\ IsConfCall
    /\ call.result.spikeStart = Some(call.deploymentDate.day - 1)

----------------------------------------------------------------------------
(* C17: a flat anomaly rate and no deployment, under SpecApi *)

\* the invoices that the call works on: those of the target service of an
\* analysis, those of the service asked for, or all, of the other requests
CallInvoices ==
    Filtered(invoices, IF call.op = "analyze" THEN CallTarget ELSE call.service)

\* on every day of the window one invoice in FlatDailyVolume is anomalous
FlatRate(invs) ==
    /\ DOMAIN invs # {}
    /\ \A d \in {k.timestamp.day : k \in DOMAIN invs} :
          LET ofDay == FilterBag(invs, LAMBDA k : k.timestamp.day = d)
          IN BagSize(FilterBag(ofDay, IsAnomalous)) * FlatDailyVolume = BagSize(ofDay)

NoDeploymentEvents == \A i \in 1..Len(events) : events[i].eventType # "deployment"

\* the loss ratio up to which the score of a flat window stays at 0.3:
\* 0.016 + 0.35 * min(10 * lossRatio, 1) <= 0.3
FlatLowRatio == Rat(71, 875)

----------------------------------------------------------------------------
(* C18: candidates of equal confidence, under SpecIncident *)

\* the positions, in the event file, of the deployments of the reported
\* service whose confidence is the highest
BestCandidates ==
    LET service == call.result.metadata.service
        evts == cachedEvents.val
        candidates == DeploymentsOf(service, evts)
        confidenceOf == [i \in candidates |->
                            computeConfidence(cachedInvoices.val, service,
                                              evts[i].timestamp).confidence]
    IN {i \in candidates : \A j \in candidates : confidenceOf[j] <= confidenceOf[i]}

\* C18 (as claimed): among the deployments that share the highest confidence
\* the culprit of a report is the one with the most recent timestamp, in
\* whatever order the events are listed.
C18_TieToMostRecent ==
    (IsAnalyzeReport /\ call.result.culprit # None) =>
        \A i \in BestCandidates :
            ~StampLess(call.result.culprit.val.timestamp, cachedEvents.val[i].timestamp)

\* what the handler does instead: the culprit is the deployment listed first
\* among those of the highest confidence
C18_TieToFirstListed ==
    (IsAnalyzeReport /\ call.result.culprit # None) =>
        \E i \in BestCandidates :
            /\ call.result.culprit.val.timestamp = cachedEvents.val[i].timestamp
            /\ call.result.culprit.val.version = cachedEvents.val[i].version
            /\ \A j \in BestCandidates : i <= j

----------------------------------------------------------------------------
(* C19: the projections of the observed loss, under SpecApi *)

\* C19 (as claimed): the projections are the observed loss per day of the
\* window times 30 and times 365, and the analysis and the financial-loss
\* report project the same loss alike: over the 21 days of the dataset, the
\* annualized risk of a report of analyze is observed_loss / 21 * 365, and the
\* projections of the financial-loss report are totalLoss / 21 * 30 and
\* totalLoss / 21 * 365 to two decimals.
C19_ProjectionsPerDay ==
    /\ IsAnalyzeReport =>
          call.result.financial_impact.arr_risk =
              Rat(call.result.financial_impact.observed_loss * 365, ProjectionWindowDays)
    /\ call.op = "financial-loss" =>
          LET loss == call.result.financialLoss
          IN /\ 2 * Abs(ProjectionWindowDays * loss.projected_monthly_loss
                            - 30 * loss.totalLoss) <= ProjectionWindowDays
             /\ 2 * Abs(ProjectionWindowDays * loss.projected_annualized_loss
                            - 365 * loss.totalLoss) <= ProjectionWindowDays

\* the part of C19 that holds: the projections of the financial-loss report
C19_FinancialLossPerDay ==
    call.op = "financial-loss" =>
        LET loss == call.result.financialLoss
        IN /\ 2 * Abs(ProjectionWindowDays * loss.projected_monthly_loss
                          - 30 * loss.totalLoss) <= ProjectionWindowDays
           /\ 2 * Abs(ProjectionWindowDays * loss.projected_annualized_loss
                          - 365 * loss.totalLoss) <= ProjectionWindowDays

\* what the analysis reports instead: 12 * 0.2 = 2.4 times the observed loss
C19_AnalyzeRiskOfLoss ==
    IsAnalyzeReport =>
        call.result.financial_impact.arr_risk =
            Rat(call.result.financial_impact.observed_loss * 24, 10)

----------------------------------------------------------------------------
(* Records of invoices.json that lack a field.  JSON.parse yields objects
   without the property; reading it gives undefined.  The handlers below are
   those of the server, taken over such records:
     undefined < x and x < undefined are false,
     s + undefined is NaN, and NaN > 0, Math.min(NaN, 1) and every sum or
       product with NaN are false or NaN,
     undefined.slice(0, 10) throws a TypeError, which the catch of the
       handler turns into status 500 with err.message,
     res.json writes NaN as null. *)

Has(inv, field) == field \in DOMAIN inv

Without(inv, field) == [f \in DOMAIN inv \ {field} |-> inv[f]]

NaN == [nan |-> TRUE]
Num(x) == [nan |-> FALSE, val |-> x]

\* err.message of undefined.slice(0, 10)
TypeErrorMessage == "Cannot read properties of undefined (reading 'slice')"

\* inv.amountBilled < inv.amountExpected over a record that may lack an amount
IsAnomalousRecord(inv) ==
    /\ Has(inv, "amountBilled")
    /\ Has(inv, "amountExpected")
    /\ inv.amountBilled < inv.amountExpected

\* inv.timestamp.slice(0, 10) throws on one of the records of the service
ThrowsOnTimestamp(records, service) ==
    \E k \in DOMAIN Filtered(records, service) : ~Has(k, "timestamp")

\* The records of the service as the comparisons of the amounts and the
\* grouping by day take them, all of them having a timestamp: a record
\* without an amount is a record that is not underbilled.
Compared(records, service) ==
    LET filtered == Filtered(records, service)
        seen(k) == IF Has(k, "amountBilled") /\ Has(k, "amountExpected") THEN k
                   ELSE Invoice(k.service, k.timestamp, 0, 0)
    IN [c \in {seen(k) : k \in DOMAIN filtered} |->
           SumOver({k \in DOMAIN filtered : seen(k) = c}, filtered)]

\* computeRiskScore over records that may lack an amount.  NaN in score,
\* lossRatio, normalized and contribution is written as null.
computeRiskScoreOfRecords(records, evts) ==
    LET totalInvoices == BagSize(records)
        anomalies == BagSize(FilterBag(records, IsAnomalousRecord))
        anomalyRate == IF totalInvoices > 0 THEN Rat(anomalies, totalInvoices) ELSE RInt(0)
        expectedIsNaN == \E k \in DOMAIN records : ~Has(k, "amountExpected")
        billedIsNaN == \E k \in DOMAIN records : ~Has(k, "amountBilled")
        \* totalExpected > 0 ? totalLoss / totalExpected : 0
        lossRatio == IF expectedIsNaN THEN Num(RInt(0))
                     ELSE IF TotalExpected(records) > 0
                          THEN IF billedIsNaN THEN NaN ELSE Num(LossRatio(records))
                          ELSE Num(RInt(0))
        recency == RecencyOf(evts)
        anomalyRateNorm == AnomalyRateNorm(anomalyRate)
        fixed(x, scale) == IF x.nan THEN NaN ELSE Num(Fixed(x.val, scale))
        lossNorm == IF lossRatio.nan THEN NaN ELSE Num(LossNorm(lossRatio.val))
        score == IF lossNorm.nan THEN NaN
                 ELSE Num(Score(anomalyRateNorm, lossNorm.val, recency.recencyFactor))
    IN [score |-> fixed(score, 10000),
        category |-> IF score.nan THEN "LOW" ELSE Category(score.val),
        components |->
            [anomalyRate |->
                [raw |-> Fixed(anomalyRate, 10000),
                 normalized |-> Fixed(anomalyRateNorm, 10000),
                 weight |-> WeightAnomalyRate,
                 contribution |-> Fixed(RMul(anomalyRateNorm, WeightAnomalyRate), 10000)],
             financialImpact |->
                [lossRatio |-> fixed(lossRatio, 1000000),
                 normalized |-> fixed(lossNorm, 10000),
                 weight |-> WeightFinancialImpact,
                 contribution |->
                     IF lossNorm.nan THEN NaN
                     ELSE Num(Fixed(RMul(lossNorm.val, WeightFinancialImpact), 10000))],
             deploymentRecency |->
                recency @@
                [weight |-> WeightDeploymentRecency,
                 contribution |-> Fixed(RMul(Rat(recency.recencyFactor, 10000),
                                             WeightDeploymentRecency), 10000)]]]

\* GET /api/risk-score?service= over such records; it reads no timestamp of
\* an invoice
GetRiskScoreOfRecords(service) ==
    /\ clock < MaxRequests
    /\ clock' = clock + 1
    /\ cachedInvoices' = ReadThrough(cachedInvoices, invoices)
    /\ cachedEvents' = ReadThrough(cachedEvents, events)
    /\ call' = [op |-> "risk-score", service |-> service, status |-> 200,
                result |-> computeRiskScoreOfRecords(
                               Filtered(cachedInvoices'.val, service),
                               ServiceEvents(cachedEvents'.val, service))
                           @@ [filter |-> [service |-> FilterLabel(service)]]]
    /\ UNCHANGED <<dataVars, ES_REQUIRED, cachedTransactions, cachedChurn,
                   cachedAgentLogs, queryAuditLog, lastReasoningTrace>>

\* GET /api/anomalies?service= over such records
GetAnomaliesOfRecords(service) ==
    /\ clock < MaxRequests
    /\ clock' = clock + 1
    /\ cachedInvoices' = ReadThrough(cachedInvoices, invoices)
    /\ call' = IF ThrowsOnTimestamp(cachedInvoices'.val, service)
               THEN [op |-> "anomalies", service |-> service, status |-> 500,
                     result |-> [error |-> TypeErrorMessage]]
               ELSE [op |-> "anomalies", service |-> service, status |-> 200,
                     result |-> AnomaliesBody(Compared(cachedInvoices'.val, service),
                                              service)]
    /\ UNCHANGED <<dataVars, ES_REQUIRED, cachedEvents, cachedTransactions, cachedChurn,
                   cachedAgentLogs, queryAuditLog, lastReasoningTrace>>

\* POST /api/agent/analyze over such records: the gate, then the four reads,
\* then either the TypeError of the first tool, before anything is logged, or
\* the report
AnalyzeRecords(bodyService, esAvailable) ==
    /\ clock < MaxRequests
    /\ clock' = clock + 1
    /\ IF ES_REQUIRED /\ ~esAvailable
       THEN /\ call' = [op |-> "analyze", service |-> bodyService, status |-> 503,
                        result |-> [status |-> "LIMITED_MODE"]]
            /\ UNCHANGED <<cachedInvoices, cachedEvents, cachedTransactions, cachedChurn,
                           cachedAgentLogs, queryAuditLog, lastReasoningTrace>>
       ELSE /\ cachedInvoices' = ReadThrough(cachedInvoices, invoices)
            /\ cachedEvents' = ReadThrough(cachedEvents, events)
            /\ cachedTransactions' = ReadThrough(cachedTransactions, transactions)
            /\ cachedChurn' = ReadThrough(cachedChurn, churn)
            /\ IF ThrowsOnTimestamp(cachedInvoices'.val, TargetService(bodyService))
               THEN /\ call' = [op |-> "analyze", service |-> bodyService, status |-> 500,
                                result |-> [error |-> TypeErrorMessage]]
                    /\ UNCHANGED <<cachedAgentLogs, queryAuditLog, lastReasoningTrace>>
               ELSE \E tools \in {ToolResults(bodyService,
                                      Compared(cachedInvoices'.val, TargetService(bodyService)),
                                      cachedEvents'.val, cachedTransactions'.val,
                                      cachedChurn'.val)} :
                    \E report \in {Report(tools, esAvailable, clock)} :
                        /\ queryAuditLog' = AuditAfterAnalyze(queryAuditLog, clock, tools)
                        /\ lastReasoningTrace' = Some(report.reasoning_trace)
                        /\ cachedAgentLogs' =
                               Append(cachedAgentLogs,
                                      [id |-> <<"LOG", clock>>, timestamp |-> clock,
                                       action |-> "AGENT_ANALYZE", tool |-> "Orchestrator",
                                       query |-> "", reasoning |-> report.executive_summary,
                                       output |-> report])
                        /\ call' = [op |-> "analyze", service |-> bodyService,
                                    status |-> 200, result |-> report]
    /\ UNCHANGED <<dataVars, ES_REQUIRED>>

\* an underbilled invoice of the billing service, and the same without one of
\* its required fields
IncompleteKinds ==
    LET inv == Invoice("billing-service", Stamp(BaselineEndDay, 18), 6, 10)
    IN {Without(inv, field) : field \in {"timestamp", "amountExpected", "amountBilled"}}

\* snapshots of complete records, and the same with one record that lacks a
\* field
InitRecords ==
    /\ \E complete \in BagsOver(ServerKinds, MaxStagedKinds, {1}) :
          \/ invoices = complete
          \/ \E k \in IncompleteKinds : invoices = complete @@ (k :> 1)
    /\ events \in ServerEventSeqsUpTo(MaxRepeatEvents)
    /\ transactions = <<Transaction("FAILED", Stamp(BaselineEndDay, 18))>>
    /\ churn = <<ChurnEvent(Stamp(BaselineEndDay + 1, 9))>>
    /\ ServerInit
    /\ call = NoCall

NextRecords ==
    \E service \in Services \cup {NoService} :
        \/ \E esAvailable \in BOOLEAN : AnalyzeRecords(service, esAvailable)
        \/ GetAnomaliesOfRecords(service)
        \/ GetRiskScoreOfRecords(service)

SpecRecords == InitRecords /\ [][NextRecords]_vars

\* the records that the call works on and that lack a required field
IncompleteOfCall ==
    {k \in DOMAIN CallInvoices :
        \E field \in {"timestamp", "amountExpected", "amountBilled"} : ~Has(k, field)}

\* the response is an error other than the gate's and its message is not the
\* TypeError's, the only message of these handlers, which names no record
IsValidationError ==
    /\ call.status >= 400
    /\ call.status # 503
    /\ call.result.error # TypeErrorMessage

\* C20 (as claimed): a request that works on a record without timestamp,
\* expected amount or billed amount is answered by a validation error naming
\* the record, unless the availability gate answers 503 before the records
\* are read; it is never answered by a result.
C20_MissingFieldIsRejected ==
    (call # NoCall /\ IncompleteOfCall # {}) =>
        \/ call.status = 503
        \/ IsValidationError

\* what the handlers do instead: a missing timestamp ends the analysis and the
\* anomalies request in status 500 with the TypeError's message, and every
\* other request over an incomplete record is answered 200, a record without
\* an amount being counted as not anomalous and a missing billed amount
\* turning the risk score into NaN
C20_MissingFieldIsCoerced ==
    (call # NoCall /\ IncompleteOfCall # {} /\ call.status # 503) =>
        LET missing(field) == \E k \in IncompleteOfCall : ~Has(k, field)
        IN IF missing("timestamp") /\ call.op # "risk-score"
           THEN call.status = 500 /\ call.result = [error |-> TypeErrorMessage]
           ELSE /\ call.status = 200
                /\ call.op = "anomalies" =>
                      call.result.anomalyCount < call.result.totalInvoices
                /\ call.op = "risk-score" =>
                      /\ (missing("amountBilled") \/ missing("amountExpected")) =>
                            call.result.components.anomalyRate.raw < 10000
                      /\ (missing("amountBilled") /\ ~missing("amountExpected")) =>
                            call.result.score = NaN

----------------------------------------------------------------------------
(* C23: what an analysis leaves behind, under Spec *)

\* C23 (as claimed): an analyze invocation changes nothing that invocations
\* share except the read-through caches of the record collections: the query
\* audit log, the agent log and the holder of the last reasoning trace are
\* after the call what they were before it.
C23_AnalyzeKeepsSharedState ==
    [][call'.op = "analyze" =>
          UNCHANGED <<queryAuditLog, cachedAgentLogs, lastReasoningTrace>>]_vars

\* what holds instead: an analysis refused by the availability gate changes
\* nothing; a reported one appends its four tool calls to the query audit log
\* and one entry to the agent log, and puts its trace into the holder of the
\* last reasoning trace; the stored records are never changed
C23_AnalyzeLeavesLogs ==
    [][/\ UNCHANGED dataVars
       /\ (call'.op = "analyze" /\ call'.status = 503) =>
             UNCHANGED <<cachedInvoices, cachedEvents, cachedTransactions, cachedChurn,
                         cachedAgentLogs, queryAuditLog, lastReasoningTrace>>
       /\ (call'.op = "analyze" /\ call'.status = 200) =>
             /\ Len(queryAuditLog') = Len(queryAuditLog) + 4
             /\ Len(cachedAgentLogs') = Len(cachedAgentLogs) + 1
             /\ lastReasoningTrace' = Some(call'.result.reasoning_trace)]_vars

----------------------------------------------------------------------------
(* The query audit log under the tool calls of analyze invocations that
   interleave at their await points.  A tool is awaited, so between two tools
   of one invocation those of another may run; logAnalyticProof itself is
   synchronous.  clock counts the tool calls and is the instant of each. *)

\* index and label of the tools, in the call order of the handler
AuditedTools ==
    << <<"invoices", "Tool: Anomaly Detection">>,
       <<"system_events", "Tool: Deployment History">>,
       <<"transactions", "Tool: Transaction Forensic">>,
       <<"churn_events", "Tool: Churn patterns">> >>

\* tool calls in one behaviour, and the invocations that the second client
\* makes while the first one repeats its own
MaxToolCalls == 52
MaxSecondRuns == 1

\* tool calls of the first client before the second one begins
QuietCalls == 44

Clients == {1, 2}

\* the next tool call of an invocation of the client: call.done[c] counts the
\* tools that its running invocation has called, call.runs[c] its invocations
ToolCall(c, count) ==
    /\ call.op = "tools"
    /\ clock < MaxToolCalls
    /\ c = 2 => (call.runs[2] < MaxSecondRuns /\ clock >= QuietCalls)
    /\ queryAuditLog' = logAnalyticProof(queryAuditLog, clock,
                                         AuditedTools[call.done[c] + 1][1],
                                         AuditedTools[call.done[c] + 1][2], count)
    /\ clock' = clock + 1
    /\ call' = IF call.done[c] + 1 = Len(AuditedTools)
               THEN [call EXCEPT !.done[c] = 0, !.runs[c] = @ + 1]
               ELSE [call EXCEPT !.done[c] = @ + 1]
    /\ UNCHANGED <<dataVars, ES_REQUIRED, cachedInvoices, cachedEvents, cachedTransactions,
                   cachedChurn, cachedAgentLogs, lastReasoningTrace>>

InitAudit ==
    /\ invoices = << >>
    /\ events = <<>>
    /\ transactions = <<>>
    /\ churn = <<>>
    /\ ServerInit
    /\ call = [op |-> "tools", done |-> [c \in Clients |-> 0], runs |-> [c \in Clients |-> 0]]

\* the record count that a tool logs is the number of its client
NextAudit == \E c \in Clients : ToolCall(c, c)

SpecAudit == InitAudit /\ [][NextAudit]_vars

\* C30: the query audit log never holds more than 50 entries, and it holds
\* the most recent tool calls in call order: its entries are those of the
\* last Len(queryAuditLog) calls, the oldest first, so that the entry evicted
\* by a 51st is the oldest one.
C30_AuditLogIsRecentCalls ==
    call.op = "tools" =>
        /\ Len(queryAuditLog) = (IF clock < AuditLogCap THEN clock ELSE AuditLogCap)
        /\ \A i \in 1..Len(queryAuditLog) :
              queryAuditLog[i].timestamp = clock - Len(queryAuditLog) + i - 1

\* C30 happens: more than 50 tools have been called by interleaved
\* invocations, the log is full, its oldest entries have been evicted and an
\* entry of the second client is still in it
C30_Witness ==
    /\ call.op = "tools"
    /\ clock > AuditLogCap
    /\ Len(queryAuditLog) = AuditLogCap
    /\ queryAuditLog[1].timestamp > 0
    /\ call.done[1] > 0
    /\ \E i \in 1..Len(queryAuditLog) : queryAuditLog[i].recordCount = 2

----------------------------------------------------------------------------
(* C25: the rates of computeDriftDetection, under SpecDrift *)

\* the invoices of the call, their days, and the fraction of the invoices of
\* a day that are billed below the expected amount
DriftInvoices == Filtered(invoices, call.service)
DriftDays == {k.timestamp.day : k \in DOMAIN DriftInvoices}
FractionOfDay(d) ==
    Rat(SumOver({k \in DOMAIN DriftInvoices :
                    k.timestamp.day = d /\ k.amountBilled < k.amountExpected},
                DriftInvoices),
        SumOver({k \in DOMAIN DriftInvoices : k.timestamp.day = d}, DriftInvoices))

\* the unweighted mean of the fractions of the days, 0 of no day
MeanFraction(days) ==
    IF days = {} THEN RInt(0)
    ELSE RDiv(RSumOver(days, [d \in days |-> FractionOfDay(d)]), RInt(Cardinality(days)))

\* the last three observed days
LastThreeDays == {d \in DriftDays : Cardinality({e \in DriftDays : e > d}) < 3}

----------------------------------------------------------------------------
(* C26: the temporal score, under SpecConf *)

\* onset day - deployment day of the call, when the result has an onset
CallDelta == call.result.spikeStart.val - call.deploymentDate.day

C26_WitnessLate ==
    /\ IsConfCall
    /\ call.result.spikeStart # None
    /\ CallDelta > 3

----------------------------------------------------------------------------
(* C27: findSpikeStart applied to the daily series of generated invoice
   collections *)

\* one call of findSpikeStart on the dailyDrift of computeDriftDetection
CallSpikeStart(service, baselineEnd, threshold) ==
    /\ call = NoCall
    /\ \E drift \in {computeDriftDetection(invoices, service, baselineEnd,
                                           DefaultDriftThreshold)} :
          call' = [op |-> "findSpikeStart",
                   service |-> service,
                   baselineEnd |-> baselineEnd,
                   dailyDrift |-> drift.dailyDrift,
                   threshold |-> threshold,
                   result |-> findSpikeStart(drift.dailyDrift, threshold)]
    /\ UNCHANGED <<dataVars, serverVars>>

NextOnset ==
    \E service \in Services \cup {NoService},
       baselineEnd \in {BaselineEndDay - DaysBefore, BaselineEndDay},
       threshold \in 0..MaxThreshold :
        CallSpikeStart(service, baselineEnd, threshold)

SpecOnset == InitDrift /\ [][NextOnset]_vars

IsOnsetCall == call.op = "findSpikeStart"

\* the entries of the daily series of the call whose factor, held * 100, is
\* strictly greater than the threshold
OverThreshold ==
    {i \in DOMAIN call.dailyDrift : call.dailyDrift[i].driftFactor > 100 * call.threshold}

\* C27: for a threshold >= 0, findSpikeStart returns the date of an entry of
\* the daily series whose drift factor is strictly greater than the
\* threshold, no entry of an earlier date being so, and null when no entry is;
\* it returns null whenever the baseline rate of the series is 0.
C27_EarliestDayOverThreshold ==
    IsOnsetCall =>
        /\ OverThreshold = {} => call.result = None
        /\ OverThreshold # {} =>
              /\ call.result # None
              /\ \E i \in OverThreshold : call.dailyDrift[i].date = call.result.val
              /\ \A i \in OverThreshold : call.dailyDrift[i].date >= call.result.val
        /\ MeanFraction({d \in DriftDays : d < call.baselineEnd}) = RInt(0) =>
              call.result = None

\* C27 happens: a day over the threshold after a day with anomalies that is
\* not over it
C27_Witness ==
    /\ IsOnsetCall
    /\ OverThreshold # {}
    /\ \E i \in DOMAIN call.dailyDrift :
          /\ i \notin OverThreshold
          /\ call.dailyDrift[i].driftFactor > 0
          /\ call.dailyDrift[i].date < call.result.val

\* and two days over the threshold, the onset being the earlier one
C27_WitnessTwoDays ==
    /\ IsOnsetCall
    /\ Cardinality(OverThreshold) >= 2
    /\ \E i \in OverThreshold : call.dailyDrift[i].date > call.result.val

\* the other case of C27 happens: no baseline rate, anomalies on the days of
\* the series, threshold 0
C27_WitnessNoBaseline ==
    /\ IsOnsetCall
    /\ call.threshold = 0
    /\ call.dailyDrift # <<>>
    /\ \E i \in DOMAIN call.dailyDrift : call.dailyDrift[i].anomalyRate > 0
    /\ call.result = None

-----------------------------------------------------------------------------
(* The statistics primitives of analysis.js.  A number the code obtains   *)
(* with Math.sqrt is kept exactly as sign * sqrt(square), the square a    *)
(* rational; a mean is a rational.                                         *)

Sgn(x) == IF x < 0 THEN -1 ELSE IF x > 0 THEN 1 ELSE 0

\* the real number sign * sqrt(square); zero has sign 0 and square 0/1
Root(sign, square) ==
    IF sign = 0 \/ square[1] = 0 THEN [sign |-> 0, square |-> RInt(0)]
    ELSE [sign |-> sign, square |-> square]

Zero == Root(0, RInt(0))

\* a / b < c / d for a, c >= 0 and b, d > 0, by continued fractions: no
\* product is formed, so the comparison is exact for every 32-bit operand
RECURSIVE CFLess(_, _, _, _)
CFLess(a, b, c, d) ==
    IF a \div b # c \div d THEN a \div b < c \div d
    ELSE IF c % d = 0 THEN FALSE
    ELSE IF a % b = 0 THEN TRUE
    ELSE CFLess(d, c % d, b, a % b)

\* a / b <= sqrt(square) for a, b > 0
LeqRoot(a, b, square) == ~CFLess(square[1] * b, square[2] * a, a, b)

\* the largest k in lo..hi with (2k - 1) / (2 scale) <= sqrt(square), lo one
RECURSIVE NearestIn(_, _, _, _)
NearestIn(square, scale, lo, hi) ==
    IF lo = hi THEN lo
    ELSE LET mid == (lo + hi + 1) \div 2
         IN IF LeqRoot(2 * mid - 1, 2 * scale, square)
            THEN NearestIn(square, scale, mid, hi)
            ELSE NearestIn(square, scale, lo, mid - 1)

\* +x.toFixed(k) of x = sign * sqrt(square) as the integer x * 10^k,
\* scale = 10^k: the nearest integer to x * scale
FixedRoot(x, scale) ==
    LET whole == ISqrt(x.square[1] \div x.square[2]) + 1
    IN x.sign * NearestIn(x.square, scale, 0, whole * scale)

\* arr.reduce((s, v) => s + v, 0)
RECURSIVE SumSeq(_)
SumSeq(arr) == IF arr = <<>> THEN 0 ELSE arr[1] + SumSeq(Tail(arr))

mean(arr) ==
    IF Len(arr) = 0 THEN RInt(0)
    ELSE Rat(SumSeq(arr), Len(arr))

\* arr.reduce((s, v) => s + (v - m) ** 2, 0) for the rational m
RECURSIVE SquaredDeviations(_, _)
SquaredDeviations(arr, m) ==
    IF arr = <<>> THEN RInt(0)
    ELSE LET d == RSub(RInt(arr[1]), m)
         IN RAdd(RMul(d, d), SquaredDeviations(Tail(arr), m))

\* the sample variance of a series of two or more values
SampleVariance(arr) ==
    RDiv(SquaredDeviations(arr, mean(arr)), RInt(Len(arr) - 1))

stddev(arr) ==
    IF Len(arr) < 2 THEN Zero
    ELSE Root(1, SampleVariance(arr))

\* value and m rationals, sd a root
zScore(value, m, sd) ==
    IF sd = Zero THEN Zero
    ELSE LET d == RSub(value, m)
         IN Root(Sgn(d[1]) * sd.sign, RDiv(RMul(d, d), sd.square))

\* the loop of pearson over the first n points: <<num, dx2, dy2>>
RECURSIVE PearsonSums(_, _, _, _, _)
PearsonSums(xs, ys, mx, my, n) ==
    IF n = 0 THEN <<RInt(0), RInt(0), RInt(0)>>
    ELSE LET rest == PearsonSums(xs, ys, mx, my, n - 1)
             dx == RSub(RInt(xs[n]), mx)
             dy == RSub(RInt(ys[n]), my)
         IN <<RAdd(rest[1], RMul(dx, dy)),
              RAdd(rest[2], RMul(dx, dx)),
              RAdd(rest[3], RMul(dy, dy))>>

Shorter(xs, ys) == IF Len(xs) < Len(ys) THEN Len(xs) ELSE Len(ys)

\* pearson without the test of the denominator: a constant series is
\* answered as a perfect correlation
pearsonWithoutVarianceGuard(xs, ys) ==
    LET n == Shorter(xs, ys)
    IN IF n < 3 THEN Zero
       ELSE LET sums == PearsonSums(xs, ys, mean(SubSeq(xs, 1, n)),
                                    mean(SubSeq(ys, 1, n)), n)
                denom2 == RMul(sums[2], sums[3])
            IN IF denom2[1] = 0 THEN [sign |-> 1, square |-> RInt(1)]
               ELSE Root(Sgn(sums[1][1]), RDiv(RMul(sums[1], sums[1]), denom2))

pearson(xs, ys) ==
    LET n == Shorter(xs, ys)
    IN IF n < 3 THEN Zero
       ELSE LET sums == PearsonSums(xs, ys, mean(SubSeq(xs, 1, n)),
                                    mean(SubSeq(ys, 1, n)), n)
                denom2 == RMul(sums[2], sums[3])
            IN IF denom2[1] = 0 THEN Zero
               ELSE Root(Sgn(sums[1][1]), RDiv(RMul(sums[1], sums[1]), denom2))

\* toFixed(4)
FourDecimals == 10000

\* |t| > 2.0 as t * t > 4
SignificantSquare == 4

welchTTest(sample1, sample2) ==
    LET n1 == Len(sample1)
        n2 == Len(sample2)
    IN IF n1 < 2 \/ n2 < 2 THEN [t |-> 0, significant |-> FALSE]
       ELSE LET se2 == RAdd(RDiv(SampleVariance(sample1), RInt(n1)),
                            RDiv(SampleVariance(sample2), RInt(n2)))
                diff == RSub(mean(sample1), mean(sample2))
            IN IF se2[1] = 0 THEN [t |-> 0, significant |-> FALSE]
               ELSE LET t == Root(Sgn(diff[1]), RDiv(RMul(diff, diff), se2))
                    IN [t |-> FixedRoot(t, FourDecimals),
                        significant |-> RLess(RInt(SignificantSquare), t.square)]

\* longest generated series and largest generated value
MaxSamples == 3
MaxSample == 2

Samples == UNION {[1..n -> 0..MaxSample] : n \in 0..MaxSamples}

CallMean(arr) ==
    /\ call = NoCall
    /\ call' = [op |-> "mean", arr |-> arr, result |-> mean(arr)]
    /\ UNCHANGED <<dataVars, serverVars>>

CallStddev(arr) ==
    /\ call = NoCall
    /\ call' = [op |-> "stddev", arr |-> arr, result |-> stddev(arr)]
    /\ UNCHANGED <<dataVars, serverVars>>

\* the use of zScore in detectAnomalies: the mean and deviation of a series
CallZScore(value, arr) ==
    /\ call = NoCall
    /\ call' = [op |-> "zScore", value |-> value, arr |-> arr,
                m |-> mean(arr), sd |-> stddev(arr),
                result |-> zScore(RInt(value), mean(arr), stddev(arr))]
    /\ UNCHANGED <<dataVars, serverVars>>

CallPearson(xs, ys) ==
    /\ call = NoCall
    /\ call' = [op |-> "pearson", xs |-> xs, ys |-> ys, result |-> pearson(xs, ys)]
    /\ UNCHANGED <<dataVars, serverVars>>

CallWelch(sample1, sample2) ==
    /\ call = NoCall
    /\ call' = [op |-> "welchTTest", sample1 |-> sample1, sample2 |-> sample2,
                result |-> welchTTest(sample1, sample2)]
    /\ UNCHANGED <<dataVars, serverVars>>

InitStats ==
    /\ invoices = << >>
    /\ events = <<>>
    /\ transactions = <<>>
    /\ churn = <<>>
    /\ ServerInit
    /\ call = NoCall

NextStats ==
    \/ \E arr \in Samples : CallMean(arr)
    \/ \E arr \in Samples : CallStddev(arr)
    \/ \E value \in 0..MaxSample, arr \in Samples : CallZScore(value, arr)
    \/ \E xs \in Samples, ys \in Samples : CallPearson(xs, ys)
    \/ \E sample1 \in Samples, sample2 \in Samples : CallWelch(sample1, sample2)

SpecStats == InitStats /\ [][NextStats]_vars

\* the first n values of the series are all the same value
IsConstant(arr, n) == \A i \in 1..n, j \in 1..n : arr[i] = arr[j]

NeutralTest == [t |-> 0, significant |-> FALSE]

\* C21: on degenerate input every statistics primitive returns its neutral
\* value: mean of an empty series is 0, the deviation of fewer than two
\* samples is 0, a z-score over a zero deviation is 0, pearson of fewer than
\* three overlapping points or of a constant series is 0, and the t-test of
\* a sample of fewer than two points or of two constant samples is
\* {t: 0, significant: false}
C21_NeutralOnDegenerateInput ==
    /\ (call.op = "mean" /\ call.arr = <<>>) => call.result = RInt(0)
    /\ (call.op = "stddev" /\ Len(call.arr) < 2) => call.result = Zero
    /\ (call.op = "zScore" /\ (Len(call.arr) < 2 \/ IsConstant(call.arr, Len(call.arr))))
          => call.result = Zero
    /\ (call.op = "pearson" /\ \/ Shorter(call.xs, call.ys) < 3
                               \/ IsConstant(call.xs, Shorter(call.xs, call.ys))
                               \/ IsConstant(call.ys, Shorter(call.xs, call.ys)))
          => call.result = Zero
    /\ (call.op = "welchTTest" /\ \/ Len(call.sample1) < 2
                                  \/ Len(call.sample2) < 2
                                  \/ /\ IsConstant(call.sample1, Len(call.sample1))
                                     /\ IsConstant(call.sample2, Len(call.sample2)))
          => call.result = NeutralTest

\* C21: pearson has met two series of three points, one of them constant and
\* the other not, and has answered 0
C21_Witness ==
    /\ call.op = "pearson"
    /\ Len(call.xs) = 3
    /\ Len(call.ys) = 3
    /\ IsConstant(call.xs, 3)
    /\ ~IsConstant(call.ys, 3)
    /\ call.result = Zero

\* C21: the t-test has met two constant samples of different value, a zero
\* standard error under a non-zero difference of means
C21_WitnessZeroError ==
    /\ call.op = "welchTTest"
    /\ Len(call.sample1) >= 2
    /\ Len(call.sample2) >= 2
    /\ IsConstant(call.sample1, Len(call.sample1))
    /\ IsConstant(call.sample2, Len(call.sample2))
    /\ call.sample1[1] # call.sample2[1]
    /\ call.result = NeutralTest

\* C21: away from the degenerate inputs the primitives answer a non-zero
\* value: a perfect correlation and a significant difference of means
C21_WitnessRegular ==
    \/ call.op = "pearson" /\ call.result = Root(1, RInt(1))
    \/ call.op = "welchTTest" /\ call.result.significant

-----------------------------------------------------------------------------
(* bestLagCorrelation of analysis.js *)

\* arr.slice(0, end): a negative end counts from the end of the array
SliceTo(arr, end) ==
    LET last == IF end >= 0 THEN end ELSE Len(arr) + end
    IN SubSeq(arr, 1, IF last < 0 THEN 0 ELSE IF last > Len(arr) THEN Len(arr) ELSE last)

\* arr.slice(start) for start >= 0
SliceFrom(arr, start) == SubSeq(arr, start + 1, Len(arr))

laggedPearson(xs, ys, lag) ==
    pearson(SliceTo(xs, Len(xs) - lag), SliceFrom(ys, lag))

\* the bucket limits 0.7, 0.4 and 0.2 on |r|, as limits on r * r
StrongSquare == Rat(49, 100)
ModerateSquare == Rat(16, 100)
WeakSquare == Rat(4, 100)

classifyCorrelation(r) ==
    IF RLeq(StrongSquare, r.square) THEN "STRONG"
    ELSE IF RLeq(ModerateSquare, r.square) THEN "MODERATE"
    ELSE IF RLeq(WeakSquare, r.square) THEN "WEAK"
    ELSE "NEGLIGIBLE"

\* the loop of bestLagCorrelation from lag to maxLag with the best so far
RECURSIVE BestFrom(_, _, _, _, _)
BestFrom(xs, ys, lag, maxLag, best) ==
    IF lag > maxLag THEN best
    ELSE LET r == laggedPearson(xs, ys, lag)
         IN BestFrom(xs, ys, lag + 1, maxLag,
                     IF RLess(best.r.square, r.square)
                     THEN [lag |-> lag, r |-> r] ELSE best)

\* r is the returned +best.r.toFixed(4), held * 10000
bestLagCorrelation(xs, ys, maxLag) ==
    LET best == BestFrom(xs, ys, 1, maxLag, [lag |-> 0, r |-> pearson(xs, ys)])
    IN [lag |-> best.lag,
        r |-> FixedRoot(best.r, FourDecimals),
        strength |-> classifyCorrelation(best.r)]

\* largest lag asked for
MaxLag == 2

\* generated series: four or five values in 0..1
ShortLength == 4
LongLength == 5
BinaryValue == 1

\* a pair of series of four daily values whose correlation at lag 0 is
\* 118 / sqrt(140 * 203) = 0.69995...
NearStrongXs == <<8, 6, 4, 0>>
NearStrongYs == <<8, 4, 9, 0>>

LagSeries ==
    [1..ShortLength -> 0..BinaryValue] \cup [1..LongLength -> 0..BinaryValue]
      \cup {NearStrongXs, NearStrongYs}

CallBestLag(xs, ys, maxLag) ==
    /\ call = NoCall
    /\ call' = [op |-> "bestLagCorrelation", xs |-> xs, ys |-> ys, maxLag |-> maxLag,
                result |-> bestLagCorrelation(xs, ys, maxLag)]
    /\ UNCHANGED <<dataVars, serverVars>>

NextLag ==
    \E xs \in LagSeries, ys \in LagSeries, maxLag \in 0..MaxLag :
        CallBestLag(xs, ys, maxLag)

SpecLag == InitStats /\ [][NextLag]_vars

IsLagCall == call.op = "bestLagCorrelation"

\* the square of the correlation of the call's series at a lag
SquareAt(lag) ==
    IF lag = 0 THEN pearson(call.xs, call.ys).square
    ELSE laggedPearson(call.xs, call.ys, lag).square

\* the returned lag is the smallest lag in 0..maxLag of the largest |r|
LagIsSmallestOfLargest ==
    /\ call.result.lag \in 0..call.maxLag
    /\ \A lag \in 0..call.maxLag : RLeq(SquareAt(lag), SquareAt(call.result.lag))
    /\ \A lag \in 0..(call.result.lag - 1) :
          RLess(SquareAt(lag), SquareAt(call.result.lag))

\* the bucket of |r| for r held * 10000
BucketOfFixed(r) ==
    IF Abs(r) >= 7000 THEN "STRONG"
    ELSE IF Abs(r) >= 4000 THEN "MODERATE"
    ELSE IF Abs(r) >= 2000 THEN "WEAK"
    ELSE "NEGLIGIBLE"

\* C28: bestLagCorrelation returns the smallest lag in 0..max_lag of the
\* largest |r|, and the returned strength is the bucket of the returned |r|:
\* STRONG from 0.7, MODERATE from 0.4, WEAK from 0.2, NEGLIGIBLE below
C28_BestLagAndStrengthOfReturnedR ==
    IsLagCall =>
        /\ LagIsSmallestOfLargest
        /\ call.result.strength = BucketOfFixed(call.result.r)

\* C28 (what the code does): the returned lag is the smallest lag of the
\* largest |r|, the returned r is that correlation rounded to four decimals,
\* and the strength is the bucket of the correlation before the rounding
C28_BestLagAndStrengthOfExactR ==
    IsLagCall =>
        /\ LagIsSmallestOfLargest
        /\ \E lag \in {call.result.lag} :
              LET r == IF lag = 0 THEN pearson(call.xs, call.ys)
                       ELSE laggedPearson(call.xs, call.ys, lag)
              IN /\ call.result.r = FixedRoot(r, FourDecimals)
                 /\ call.result.strength =
                      (IF RLeq(Rat(49, 100), r.square) THEN "STRONG"
                       ELSE IF RLeq(Rat(16, 100), r.square) THEN "MODERATE"
                       ELSE IF RLeq(Rat(4, 100), r.square) THEN "WEAK"
                       ELSE "NEGLIGIBLE")

\* C28: a correlation of 0.69995... is returned as r = 0.7 with the
\* strength MODERATE
C28_WitnessRoundedUp ==
    /\ IsLagCall
    /\ call.result.r = 7000
    /\ call.result.strength = "MODERATE"

\* C28: two lags share the largest non-zero |r| and the smaller is returned
C28_WitnessTie ==
    /\ IsLagCall
    /\ call.result.r # 0
    /\ \E lag \in 0..call.maxLag :
          /\ lag > call.result.lag
          /\ SquareAt(lag) = SquareAt(call.result.lag)

\* C28: a lag other than 0 has the largest |r| and is returned
C28_WitnessLagged ==
    /\ IsLagCall
    /\ call.result.lag = MaxLag
    /\ call.result.strength = "STRONG"

-----------------------------------------------------------------------------
(* GET /api/alerts *)

\* for (const service of ['billing-service', 'subscription-service', 'tax-service'])
AlertServices == <<"billing-service", "subscription-service", "tax-service">>

\* THRESHOLDS: percent, dollars, factor
AnomalyRateThreshold == 10
RevenueLossThreshold == 500
DriftFactorThreshold == 3
\* the limits of the severities: percent, dollars, dollars
CriticalAnomalyRate == 30
CriticalLoss == 5000
HighLoss == 2000

\* const severityOrder = { CRITICAL: 0, HIGH: 1, MEDIUM: 2, LOW: 3 }
severityOrder == [CRITICAL |-> 0, HIGH |-> 1, MEDIUM |-> 2, LOW |-> 3]

\* severityOrder[a.severity] || 99: a rank of 0 is falsy and gives 99
SortKey(alert) ==
    IF severityOrder[alert.severity] = 0 THEN 99 ELSE severityOrder[alert.severity]

\* the alerts pushed for one service, in the order of the checks; metric is
\* the rate * 100, the factor * 100 or the loss * 100
AlertsOf(invs, service, now) ==
    LET serviceInvoices == FilterBag(invs, LAMBDA k : k.service = service)
        drift == computeDriftDetection(invs, service, BaselineEndDay, DefaultDriftThreshold)
        serviceLoss == TotalLoss(serviceInvoices)
        alert(type, severity, metric) ==
            [id |-> <<"alert", type, service>>, type |-> type, severity |-> severity,
             service |-> service, metric |-> metric, timestamp |-> now]
    IN (IF drift.currentRate > AnomalyRateThreshold * 100
        THEN <<alert("ANOMALY_SPIKE",
                     IF drift.currentRate > CriticalAnomalyRate * 100
                     THEN "CRITICAL" ELSE "HIGH",
                     drift.currentRate)>>
        ELSE <<>>)
       \o (IF drift.driftFactor > DriftFactorThreshold * 100
           THEN <<alert("STATISTICAL_DRIFT", "CRITICAL", drift.driftFactor)>>
           ELSE <<>>)
       \o (IF serviceLoss > RevenueLossThreshold
           THEN <<alert("REVENUE_LOSS",
                        IF serviceLoss > CriticalLoss THEN "CRITICAL"
                        ELSE IF serviceLoss > HighLoss THEN "HIGH" ELSE "MEDIUM",
                        100 * serviceLoss)>>
           ELSE <<>>)

\* alerts.sort by the key: the stable sort of Array.prototype.sort
RECURSIVE SortedByKey(_, _)
SortedByKey(alerts, keys) ==
    IF keys = {} THEN <<>>
    ELSE LET least == CHOOSE k \in keys : \A other \in keys : k <= other
         IN SelectSeq(alerts, LAMBDA a : SortKey(a) = least)
              \o SortedByKey(alerts, keys \ {least})

\* the alerts in the order they are pushed
RaisedAlerts(invs, now) ==
    AlertsOf(invs, AlertServices[1], now)
      \o AlertsOf(invs, AlertServices[2], now)
      \o AlertsOf(invs, AlertServices[3], now)

SortKeys(alerts) == {SortKey(alerts[i]) : i \in DOMAIN alerts}

\* the response body for the alerts raised
AlertsBody(alerts) ==
    [activeAlerts |-> Len(alerts),
     alerts |-> SortedByKey(alerts, SortKeys(alerts))]

\* GET /api/alerts; raised keeps the alerts in the order they were pushed
GetAlerts ==
    /\ call = NoCall
    /\ clock' = clock + 1
    /\ cachedInvoices' = ReadThrough(cachedInvoices, invoices)
    /\ cachedEvents' = ReadThrough(cachedEvents, events)
    /\ \E raised \in {RaisedAlerts(cachedInvoices'.val, clock)} :
          call' = [op |-> "alerts", status |-> 200,
                   result |-> AlertsBody(raised),
                   raised |-> raised]
    /\ UNCHANGED <<dataVars, ES_REQUIRED, cachedTransactions, cachedChurn,
                   cachedAgentLogs, queryAuditLog, lastReasoningTrace>>

\* invoice counts of one kind: 1 of 7 is a rate between 10% and 30%
AlertVolumes == {1, 3, 6}

AlertKinds ==
    {Invoice(AlertServices[i], Stamp(BaselineEndDay, 9), p[1], p[2]) :
        i \in 1..3, p \in {PaidInFull, Underbilled, LargeUnpaid}}
    \cup {Invoice("billing-service", Stamp(BaselineEndDay - 1, 9), p[1], p[2]) :
            p \in {PaidInFull, Underbilled}}

InitAlerts ==
    /\ invoices \in BagsOver(AlertKinds, MaxKinds, AlertVolumes)
    /\ events = <<>>
    /\ transactions = <<>>
    /\ churn = <<>>
    /\ ServerInit
    /\ call = NoCall

NextAlerts == GetAlerts

SpecAlerts == InitAlerts /\ [][NextAlerts]_vars

IsAlertsCall == call.op = "alerts"

SeverityAt(i) == call.result.alerts[i].severity

\* C29: in the alerts of GET /api/alerts every CRITICAL alert precedes every
\* HIGH alert and every HIGH alert precedes every MEDIUM alert
C29_AlertsBySeverity ==
    IsAlertsCall =>
        \A i \in DOMAIN call.result.alerts, j \in DOMAIN call.result.alerts :
            severityOrder[SeverityAt(i)] < severityOrder[SeverityAt(j)] => i < j

\* C29 (what the code does): the alerts are the raised alerts with every
\* HIGH before every MEDIUM and every CRITICAL after both, alerts of one
\* severity keeping the order in which they were raised
C29_CriticalAlertsLast ==
    IsAlertsCall =>
        LET rank == [CRITICAL |-> 3, HIGH |-> 1, MEDIUM |-> 2]
            of(sev) == SelectSeq(call.raised, LAMBDA a : a.severity = sev)
        IN /\ call.result.alerts = of("HIGH") \o of("MEDIUM") \o of("CRITICAL")
           /\ call.result.activeAlerts = Len(call.raised)

\* C29: a CRITICAL alert is returned after a HIGH and a MEDIUM alert
C29_WitnessCriticalAfterOthers ==
    /\ IsAlertsCall
    /\ \E i, j, k \in DOMAIN call.result.alerts :
          /\ i < j /\ j < k
          /\ SeverityAt(i) = "HIGH"
          /\ SeverityAt(j) = "MEDIUM"
          /\ SeverityAt(k) = "CRITICAL"

\* C29: each kind of alert has been raised with each of its severities
C29_WitnessKinds ==
    /\ IsAlertsCall
    /\ \E i, j \in DOMAIN call.raised :
          /\ call.raised[i].type = "STATISTICAL_DRIFT"
          /\ call.raised[j].type = "REVENUE_LOSS"
          /\ call.raised[j].severity = "HIGH"

-----------------------------------------------------------------------------
(* The read-through caches: getInvoices, getEvents, getTransactions,       *)
(* getChurn and clearCache, among requests and changes of the data files   *)

\* gets, clears, file changes and requests of one behaviour
MaxCacheSteps == 4

Collections == {"invoices", "events", "transactions", "churn"}

\* what the data files can hold
StoredInvoices ==
    {<< >>,
     [k \in {Invoice("billing-service", Stamp(BaselineEndDay, 18), 6, 10)} |-> 1],
     [k \in {Invoice("billing-service", Stamp(BaselineEndDay - 1, 9), 10, 10),
             Invoice("billing-service", Stamp(BaselineEndDay, 18), 6, 10)} |-> 1]}
StoredEvents ==
    {<<>>, <<Event("billing-service", "deployment", "v1", Stamp(BaselineEndDay, DeployHour))>>}
StoredTransactions == {<<>>, <<Transaction("FAILED", Stamp(BaselineEndDay, 18))>>}
StoredChurn == {<<>>, <<ChurnEvent(Stamp(BaselineEndDay + 1, 9))>>}

\* getInvoices() / getEvents() / getTransactions() / getChurn(): the call
\* records what was returned and whether the file was read
GetCollection(name) ==
    /\ clock < MaxCacheSteps
    /\ clock' = clock + 1
    /\ cachedInvoices' = IF name = "invoices" THEN ReadThrough(cachedInvoices, invoices)
                         ELSE cachedInvoices
    /\ cachedEvents' = IF name = "events" THEN ReadThrough(cachedEvents, events)
                       ELSE cachedEvents
    /\ cachedTransactions' = IF name = "transactions"
                             THEN ReadThrough(cachedTransactions, transactions)
                             ELSE cachedTransactions
    /\ cachedChurn' = IF name = "churn" THEN ReadThrough(cachedChurn, churn)
                      ELSE cachedChurn
    /\ call' = [op |-> "get", collection |-> name,
                result |-> CASE name = "invoices" -> cachedInvoices'.val
                             [] name = "events" -> cachedEvents'.val
                             [] name = "transactions" -> cachedTransactions'.val
                             [] name = "churn" -> cachedChurn'.val]
    /\ UNCHANGED <<dataVars, ES_REQUIRED, cachedAgentLogs, queryAuditLog,
                   lastReasoningTrace>>

ClearCache ==
    /\ clock < MaxCacheSteps
    /\ clock' = clock + 1
    /\ cachedInvoices' = None
    /\ cachedEvents' = None
    /\ cachedTransactions' = None
    /\ cachedChurn' = None
    /\ call' = [op |-> "clearCache"]
    /\ UNCHANGED <<dataVars, ES_REQUIRED, cachedAgentLogs, queryAuditLog,
                   lastReasoningTrace>>

\* a data file is rewritten while the server runs
StoreChanges ==
    /\ clock < MaxCacheSteps
    /\ clock' = clock + 1
    /\ invoices' \in StoredInvoices
    /\ events' \in StoredEvents
    /\ transactions' \in StoredTransactions
    /\ churn' \in StoredChurn
    /\ Cardinality({i \in 1..4 : dataVars'[i] # dataVars[i]}) = 1
    /\ call' = [op |-> "store"]
    /\ UNCHANGED <<ES_REQUIRED, cachedInvoices, cachedEvents, cachedTransactions,
                   cachedChurn, cachedAgentLogs, queryAuditLog, lastReasoningTrace>>

\* POST /api/agent/analyze, the handler that gets all four collections
AnalyzeOnCache ==
    /\ clock < MaxCacheSteps
    /\ clock' = clock + 1
    /\ Serve(NoService, TRUE, clock)

InitCache ==
    /\ invoices \in StoredInvoices
    /\ events \in StoredEvents
    /\ transactions = <<>>
    /\ churn = <<>>
    /\ ServerInit
    /\ ES_REQUIRED = FALSE
    /\ call = NoCall

NextCache ==
    \/ \E name \in Collections : GetCollection(name)
    \/ ClearCache
    \/ StoreChanges
    \/ AnalyzeOnCache
    \/ GetAlerts

SpecCache == InitCache /\ [][NextCache]_vars

caches == <<cachedInvoices, cachedEvents, cachedTransactions, cachedChurn>>
CacheOf == [invoices |-> 1, events |-> 2, transactions |-> 3, churn |-> 4]

\* C24: a loaded collection stays in the cache, the same records, over
\* every step but clearCache, whatever the files hold meanwhile; a get
\* returns the cached collection; clearCache empties the four caches and
\* the get that fills an empty cache reads the file as it is then
C24_CacheHoldsUntilCleared ==
    [][/\ \A i \in 1..4 :
            /\ (caches[i].some /\ call'.op # "clearCache") => caches'[i] = caches[i]
            /\ (~caches[i].some /\ caches'[i].some) => caches'[i].val = dataVars[i]
            /\ call'.op = "clearCache" => ~caches'[i].some
       /\ call'.op = "get" =>
            \E i \in {CacheOf[call'.collection]} :
                /\ caches'[i] = Some(call'.result)
                /\ \A j \in (1..4) \ {i} : caches'[j] = caches[j]]_vars

\* C24: a get returns the records loaded earlier although the file has
\* changed since
C24_Witness ==
    /\ call.op = "get"
    /\ call.collection = "invoices"
    /\ call.result # invoices
    /\ call.result # << >>
    /\ clock >= 3

\* C24: after clearCache a get has returned the changed file
C24_WitnessReread ==
    /\ call.op = "get"
    /\ call.collection = "events"
    /\ clock = MaxCacheSteps
    /\ call.result = events
    /\ events # <<>>
    /\ queryAuditLog # <<>>

-----------------------------------------------------------------------------
(* Concurrent invocations of POST /api/agent/analyze.  Each invocation runs *)
(* from one await to the next in one step; between two awaits of one       *)
(* invocation the other may run.  call.handlers[c] is the position of      *)
(* invocation c (the awaits it has passed) and the constants it has bound. *)

\* the awaits of the handler: isESAvailable, get_anomaly_stats,
\* get_deployment_history, get_transaction_failures, get_churn_risk,
\* forecast_loss, generate_decision
Awaits == 7

\* no request of the invocation has arrived yet
Idle == [status |-> -1]

\* the constants of the others written over those of invocation c, as
\* module-level variables would have it
LocalsOfAll(handlers, c) ==
    LET others == {d \in DOMAIN handlers : d # c /\ handlers[d].status = 0}
    IN IF others = {} THEN handlers[c].out
       ELSE handlers[CHOOSE d \in others : TRUE].out @@ handlers[c].out

\* the constants invocation c reads: those it has bound itself
Locals(handlers, c) == handlers[c].out

\* what the handler binds between the await it has passed (the passed-th)
\* and the next, and the proofs logged by the tool it calls before yielding
Continue(passed, out) ==
    CASE passed = 2 ->
            LET history == get_deployment_history(out.service, out.events)
            IN [bound |-> [spikeStart |-> findSpikeStart(out.drift.dailyDrift,
                                                         DefaultOnsetThreshold),
                           history |-> history],
                proofs |-> <<<<"system_events", "Tool: Deployment History", Len(history)>>>>]
      [] passed = 3 ->
            LET failed == get_transaction_failures(out.transactions, out.spikeStart)
            IN [bound |-> [culprit |-> Culprit(DeploymentsWithConfidence(
                                                   out.history, out.invoices, out.service)),
                           failedTransactions |-> failed],
                proofs |-> <<<<"transactions", "Tool: Transaction Forensic", failed>>>>]
      [] passed = 4 ->
            LET churned == get_churn_risk(out.churn, out.spikeStart)
            IN [bound |-> [churnCount |-> churned],
                proofs |-> <<<<"churn_events", "Tool: Churn patterns", churned>>>>]
      [] passed = 5 ->
            LET totalLoss == TotalLoss(out.serviceInvoices)
            IN [bound |-> [totalLoss |-> totalLoss, forecast |-> forecast_loss(totalLoss)],
                proofs |-> <<>>]
      [] passed = 6 ->
            [bound |-> [decision |-> generate_decision(out.culprit)], proofs |-> <<>>]

\* the request of invocation c arrives; the handler awaits isESAvailable()
Arrive(c, bodyService) ==
    /\ call.op = "analyses"
    /\ call.handlers[c] = Idle
    /\ call' = [call EXCEPT !.handlers[c] =
                   [status |-> 0, bodyService |-> bodyService, passed |-> 0,
                    out |-> [service |-> TargetService(bodyService)]]]
    /\ UNCHANGED <<dataVars, serverVars>>

\* the ping answers: 503, or the collections read through the caches and
\* get_anomaly_stats called
Ping(c, esAvailable) ==
    /\ call.op = "analyses"
    /\ call.handlers[c].status = 0
    /\ call.handlers[c].passed = 0
    /\ IF ES_REQUIRED /\ ~esAvailable
       THEN /\ call' = [call EXCEPT !.handlers[c] =
                           [status |-> 503, bodyService |-> @.bodyService,
                            result |-> [status |-> "LIMITED_MODE"]]]
            /\ UNCHANGED <<cachedInvoices, cachedEvents, cachedTransactions, cachedChurn,
                           queryAuditLog>>
       ELSE /\ cachedInvoices' = ReadThrough(cachedInvoices, invoices)
            /\ cachedEvents' = ReadThrough(cachedEvents, events)
            /\ cachedTransactions' = ReadThrough(cachedTransactions, transactions)
            /\ cachedChurn' = ReadThrough(cachedChurn, churn)
            /\ \E service \in {Locals(call.handlers, c).service} :
               \E serviceInvoices \in {FilterBag(cachedInvoices'.val,
                                                 LAMBDA k : k.service = service)} :
                  /\ call' = [call EXCEPT !.handlers[c] =
                       [@ EXCEPT !.passed = 1,
                                 !.out = [esAvailable |-> esAvailable,
                                          invoices |-> cachedInvoices'.val,
                                          events |-> cachedEvents'.val,
                                          transactions |-> cachedTransactions'.val,
                                          churn |-> cachedChurn'.val,
                                          serviceInvoices |-> serviceInvoices,
                                          drift |-> computeDriftDetection(
                                                        serviceInvoices, NoService,
                                                        BaselineEndDay,
                                                        DefaultDriftThreshold)]
                                         @@ Locals(call.handlers, c)]]
                  /\ queryAuditLog' = logAnalyticProof(queryAuditLog, clock, "invoices",
                                                       "Tool: Anomaly Detection",
                                                       BagSize(serviceInvoices))
    /\ UNCHANGED <<dataVars, ES_REQUIRED, cachedAgentLogs, lastReasoningTrace, clock>>

\* an awaited tool has answered: the handler runs to its next await
Resume(c) ==
    /\ call.op = "analyses"
    /\ call.handlers[c].status = 0
    /\ call.handlers[c].passed \in 1..(Awaits - 2)
    /\ \E out \in {Locals(call.handlers, c)} :
       \E next \in {Continue(call.handlers[c].passed + 1, out)} :
          /\ call' = [call EXCEPT !.handlers[c] =
                         [@ EXCEPT !.passed = @ + 1, !.out = next.bound @@ out]]
          /\ queryAuditLog' =
                 IF next.proofs = <<>> THEN queryAuditLog
                 ELSE logAnalyticProof(queryAuditLog, clock, next.proofs[1][1],
                                       next.proofs[1][2], next.proofs[1][3])
    /\ UNCHANGED <<dataVars, ES_REQUIRED, cachedInvoices, cachedEvents,
                   cachedTransactions, cachedChurn, cachedAgentLogs,
                   lastReasoningTrace, clock>>

\* generate_decision has answered: the trace and the report, the two stores
\* and the response
Respond(c) ==
    /\ call.op = "analyses"
    /\ call.handlers[c].status = 0
    /\ call.handlers[c].passed = Awaits - 1
    /\ \E out \in {Locals(call.handlers, c)} :
       \E report \in {Report(out, out.esAvailable, clock)} :
          /\ lastReasoningTrace' = Some(report.reasoning_trace)
          /\ cachedAgentLogs' =
                 Append(cachedAgentLogs,
                        [id |-> <<"LOG", clock>>, timestamp |-> clock,
                         action |-> "AGENT_ANALYZE", tool |-> "Orchestrator",
                         query |-> "", reasoning |-> report.executive_summary,
                         output |-> report])
          /\ call' = [call EXCEPT !.handlers[c] =
                         [status |-> 200, bodyService |-> @.bodyService,
                          esAvailable |-> out.esAvailable, respondedAt |-> clock,
                          result |-> report]]
    /\ clock' = clock + 1
    /\ UNCHANGED <<dataVars, ES_REQUIRED, cachedInvoices, cachedEvents,
                   cachedTransactions, cachedChurn, queryAuditLog>>

\* the snapshots of the concurrent invocations: invoices of both services
ConcurrentInvoices ==
    {[k \in {Invoice("billing-service", Stamp(BaselineEndDay - 1, 9), 10, 10),
             Invoice("billing-service", Stamp(BaselineEndDay, 18), 6, 10),
             Invoice("tax-service", Stamp(BaselineEndDay, 18), 6, 10)} |-> 1],
     [k \in {Invoice("billing-service", Stamp(BaselineEndDay, 18), 6, 10)} |-> 1]}

InitConcurrent ==
    /\ invoices \in ConcurrentInvoices
    /\ events \in ServerEventSeqsUpTo(MaxRepeatEvents)
    /\ transactions = <<Transaction("FAILED", Stamp(BaselineEndDay, 18))>>
    /\ churn = <<ChurnEvent(Stamp(BaselineEndDay + 1, 9))>>
    /\ ServerInit
    /\ call = [op |-> "analyses", handlers |-> [c \in Clients |-> Idle]]

NextConcurrent ==
    \E c \in Clients :
        \/ \E bodyService \in {NoService, "tax-service"} : Arrive(c, bodyService)
        \/ \E esAvailable \in BOOLEAN : Ping(c, esAvailable)
        \/ Resume(c)
        \/ Respond(c)

SpecConcurrent == InitConcurrent /\ [][NextConcurrent]_vars

\* C22: whatever the interleaving of the invocations at their awaits, the
\* report an invocation returns is the report of the handler run alone on
\* the snapshot, for its service, its ping and its reading of the clock
C22_ReportAsAlone ==
    call.op = "analyses" =>
        \A c \in Clients :
            call.handlers[c].status = 200 =>
                call.handlers[c].result =
                    Report(ToolResults(call.handlers[c].bodyService, invoices, events,
                                       transactions, churn),
                           call.handlers[c].esAvailable, call.handlers[c].respondedAt)

\* C22: two invocations for different services have both passed their
\* first tool before either passed its second, and both have answered,
\* with different reports
C22_Witness ==
    /\ call.op = "analyses"
    /\ \A c \in Clients : call.handlers[c].status = 200
    /\ call.handlers[1].bodyService # call.handlers[2].bodyService
    /\ call.handlers[1].result.financial_impact # call.handlers[2].result.financial_impact
    /\ Len(queryAuditLog) = 8
    /\ queryAuditLog[1].index = "invoices"
    /\ queryAuditLog[2].index = "invoices"
    /\ queryAuditLog[8].index = "churn_events"
    /\ queryAuditLog[7].index = "churn_events"

====
